---- MODULE Spec2Model ----
(***************************************************************************)
(* Backgammon engine (New/engine_core.py): the 28-slot board, the single   *)
(* move legality engine, the full-turn route generator and the Engine      *)
(* wrapper (roll / generate_routes / apply_route / end_turn / new_game).   *)
(***************************************************************************)
EXTENDS Integers, Sequences, FiniteSets, TLC

\* ---------------------------------------------------------------- bounds
\* Number of roll() calls explored along one behaviour.
MaxRolls == 1

\* Rolls explored from the end positions, where both players are about to
\* bear off their last checkers.
MaxEndRolls == 2

\* Deepest search a route picker is called with.
MaxDepth == 3

\* Largest face of the rolls made before and sampled inside a search.
MaxSampleFace == 2

\* Largest values of the route features that fuzzy_score is given on its
\* own: pip gain, hits, blots, anchors, checkers on either bar.
MaxPipGain == 15
MaxHits == 2
MaxBlots == 6
MaxAnchors == 4
MaxBar == 3

\* The rolls one run of a driver is followed for.
MaxUIRolls == 1
MaxTkRolls == 1

\* ------------------------------------------------------------- data model
WHITE == "WHITE"
BLACK == "BLACK"
None == "None"
Player == {WHITE, BLACK}

Slots == 0..27
Points == 1..24
NumCheckers == 15

\* An opponent function that gives the player back.
opponent_same(p) == p

opponent(p) == IF p = WHITE THEN BLACK ELSE WHITE

Move(s, e, d) == [start |-> s, end |-> e, die |-> d]

EmptyPoint == [checkers |-> 0, owner |-> None]

\* Point.add: result point plus whether ValueError was raised.
PointAdd(pt, owner, n) ==
    IF pt.owner = None
    THEN [pt |-> [checkers |-> n, owner |-> owner], err |-> FALSE]
    ELSE IF pt.owner # owner
         THEN [pt |-> pt, err |-> TRUE]
         ELSE [pt |-> [pt EXCEPT !.checkers = pt.checkers + n], err |-> FALSE]

PointRemoveNoReset(pt, n) ==
    IF pt.checkers < n
    THEN [pt |-> pt, err |-> TRUE]
    ELSE [pt |-> [pt EXCEPT !.checkers = pt.checkers - n], err |-> FALSE]

\* Point.remove: result point plus whether ValueError was raised.
PointRemove(pt, n) ==
    IF pt.checkers < n
    THEN [pt |-> pt, err |-> TRUE]
    ELSE [pt |-> [checkers |-> pt.checkers - n,
                  owner |-> IF pt.checkers - n = 0 THEN None ELSE pt.owner],
          err |-> FALSE]

bar_index(player) == IF player = WHITE THEN 0 ELSE 26

off_index(player) == IF player = WHITE THEN 25 ELSE 27

\* A direction that sends both players towards point 24.
dir_up(player) == 1

dir(player) == IF player = WHITE THEN -1 ELSE 1

home_range(player) == IF player = WHITE THEN 1..6 ELSE 19..24

EmptyBoard == [i \in Slots |-> EmptyPoint]

put(b, idx, n, owner) == [b EXCEPT ![idx] = PointAdd(b[idx], owner, n).pt]

standard_setup ==
    LET w1 == put(EmptyBoard, 24, 2, WHITE)
        w2 == put(w1, 13, 5, WHITE)
        w3 == put(w2, 8, 3, WHITE)
        w4 == put(w3, 6, 5, WHITE)
        b1 == put(w4, 1, 2, BLACK)
        b2 == put(b1, 12, 5, BLACK)
        b3 == put(b2, 17, 3, BLACK)
        b4 == put(b3, 19, 5, BLACK)
    IN b4

is_blocked_for(b, idx, player) ==
    /\ idx \in Points
    /\ b[idx].owner = opponent(player)
    /\ b[idx].checkers >= 2

can_hit(b, idx, player) ==
    /\ idx \in Points
    /\ b[idx].owner = opponent(player)
    /\ b[idx].checkers = 1

\* Returns at the first owned slot it looks at instead of scanning them all.
all_in_home_first(b, player) ==
    \E i \in Slots :
        b[i].owner = player /\ (i \in home_range(player) \/ i = off_index(player))

all_in_home(b, player) ==
    \A i \in Slots :
        b[i].owner = player => (i \in home_range(player) \/ i = off_index(player))

count_on_bar(b, player) == b[bar_index(player)].checkers

count_off(b, player) == b[off_index(player)].checkers

\* roll_dice: the list for the two draws a, b.
roll_dice(a, b) == IF a = b THEN <<a, b, a, b>> ELSE <<a, b>>

\* ------------------------------------------------------- move legality
\* Entry point for die d from the bar.
entry_point_mirrored(player, d) == IF player = WHITE THEN 24 - d ELSE d

entry_point(player, d) == IF player = WHITE THEN 25 - d ELSE d

\* The (die, end) pair the loop body appends for die d, as a list of 0 or 1.
bar_target(b, player, d) ==
    LET end == entry_point(player, d)
    IN IF end \in Points /\ ~is_blocked_for(b, end, player)
       THEN << <<d, end>> >> ELSE << >>

point_target(b, player, start_idx, d) ==
    LET end == start_idx + dir(player) * d
    IN IF (player = WHITE /\ end < 1) \/ (player = BLACK /\ end > 24)
       THEN IF all_in_home(b, player)
            THEN << <<d, off_index(player)>> >> ELSE << >>
       ELSE IF end \in Points /\ ~is_blocked_for(b, end, player)
            THEN << <<d, end>> >> ELSE << >>

RECURSIVE targets_over(_, _, _, _, _)
targets_over(b, player, start_idx, dice, from_bar) ==
    IF dice = << >> THEN << >>
    ELSE (IF from_bar THEN bar_target(b, player, Head(dice))
          ELSE point_target(b, player, start_idx, Head(dice)))
         \o targets_over(b, player, start_idx, Tail(dice), from_bar)

legal_single_targets_no_bar_rule(b, player, start_idx, dice) ==
    IF start_idx = bar_index(player)
    THEN targets_over(b, player, start_idx, dice, TRUE)
    ELSE IF start_idx \notin Points THEN << >>
    ELSE IF b[start_idx].owner # player \/ b[start_idx].checkers <= 0 THEN << >>
    ELSE targets_over(b, player, start_idx, dice, FALSE)

\* legal_single_targets without the test that a start other than the bar
\* is one of the 24 points.
legal_single_targets_any_slot(b, player, start_idx, dice) ==
    IF count_on_bar(b, player) > 0 /\ start_idx # bar_index(player) THEN << >>
    ELSE IF start_idx = bar_index(player)
    THEN targets_over(b, player, start_idx, dice, TRUE)
    ELSE IF b[start_idx].owner # player \/ b[start_idx].checkers <= 0 THEN << >>
    ELSE targets_over(b, player, start_idx, dice, FALSE)

legal_single_targets(b, player, start_idx, dice) ==
    IF count_on_bar(b, player) > 0 /\ start_idx # bar_index(player) THEN << >>
    ELSE IF start_idx = bar_index(player)
    THEN targets_over(b, player, start_idx, dice, TRUE)
    ELSE IF start_idx \notin Points THEN << >>
    ELSE IF b[start_idx].owner # player \/ b[start_idx].checkers <= 0 THEN << >>
    ELSE targets_over(b, player, start_idx, dice, FALSE)

\* ---------------------------------------------------------- move effect
Ok(b) == [board |-> b, raised |-> "none"]
Raise(b, e) == [board |-> b, raised |-> e]

\* The hit branch: the blot leaves `end` and joins its owner's bar.
hit_no_bar(b, player, end) ==
    [b EXCEPT ![end] = PointRemove(b[end], 1).pt]

\* A capture that sends the captured checker to the mover's own bar.
hit_wrong_bar(b, player, end) ==
    LET b1 == [b EXCEPT ![end] = PointRemove(b[end], 1).pt]
    IN [b1 EXCEPT ![bar_index(player)] =
            PointAdd(b1[bar_index(player)], opponent(player), 1).pt]

\* A capture that sends the captured checker to its owner's off-tray.
hit_to_off(b, player, end) ==
    LET opp == opponent(player)
        b1 == [b EXCEPT ![end] = PointRemove(b[end], 1).pt]
    IN [b1 EXCEPT ![off_index(opp)] = PointAdd(b1[off_index(opp)], opp, 1).pt]

hit(b, player, end) ==
    LET opp == opponent(player)
        opp_bar == bar_index(opp)
        b1 == [b EXCEPT ![end] = PointRemove(b[end], 1).pt]
    IN [b1 EXCEPT ![opp_bar] = PointAdd(b1[opp_bar], opp, 1).pt]

\* apply_single_move: the board it leaves and the exception it raised, if any.
apply_single_move(b, player, start, end) ==
    LET off == off_index(player)
        r == PointRemove(b[start], 1)
        b1 == [b EXCEPT ![start] = r.pt]
    IN IF r.err THEN Raise(b, "ValueError")
       ELSE IF end = off
       THEN LET a == PointAdd(b1[off], player, 1)
            IN IF a.err THEN Raise(b1, "ValueError")
               ELSE Ok([b1 EXCEPT ![off] = a.pt])
       ELSE LET hitting == can_hit(b1, end, player)
                opp_bar == bar_index(opponent(player))
                bar_err == hitting /\ PointAdd(b1[opp_bar], opponent(player), 1).err
                b2 == IF hitting THEN hit(b1, player, end) ELSE b1
                pt == b2[end]
            IN IF bar_err
               THEN Raise([b1 EXCEPT ![end] = PointRemove(b1[end], 1).pt], "ValueError")
               ELSE IF pt.owner = None \/ pt.owner = player
               THEN Ok([b2 EXCEPT ![end] = PointAdd(pt, player, 1).pt])
               ELSE Raise(b2, "RuntimeError")

\* ------------------------------------------------------ route generator
Range(s) == {s[i] : i \in DOMAIN s}

\* list.pop(): drops the last element whatever x is.
RemoveLast(s, x) == IF s = << >> THEN << >> ELSE SubSeq(s, 1, Len(s) - 1)

\* A removal that drops the first element when x is not in the list.
RemoveFirst_or_head(s, x) ==
    IF s = << >> THEN << >>
    ELSE IF x \in Range(s)
    THEN LET i == CHOOSE k \in DOMAIN s : s[k] = x /\ \A j \in 1..(k - 1) : s[j] # x
         IN SubSeq(s, 1, i - 1) \o SubSeq(s, i + 1, Len(s))
    ELSE Tail(s)

\* list.remove(x): drops the first occurrence of x.
RECURSIVE RemoveFirst(_, _)
RemoveFirst(s, x) ==
    IF s = << >> THEN << >>
    ELSE IF Head(s) = x THEN Tail(s)
    ELSE <<Head(s)>> \o RemoveFirst(Tail(s), x)

\* Stands for an exception escaping the generator instead of a result.
RaisedRoute == << Move(-1, -1, 0) >>

\* Explores the points whether or not the mover is on the bar.
starts_of_points(b, player) == Points

\* The origins one backtrack step explores.
starts_of(b, player) ==
    IF count_on_bar(b, player) > 0 THEN {bar_index(player)} ELSE Points

\* Tries only the first remaining die at each origin.
cands_of_head(b, player, remaining) ==
    UNION { { Move(start, t[2], t[1]) :
                t \in Range(legal_single_targets(b, player, start, <<Head(remaining)>>)) } :
            start \in starts_of(b, player) }

\* The candidates (start, end, die) of one backtrack step; used_mask keeps
\* one of each, which is what a set holds.
cands_of(b, player, remaining) ==
    UNION { { Move(start, t[2], t[1]) :
                t \in UNION { Range(legal_single_targets(b, player, start, <<remaining[i]>>)) :
                              i \in DOMAIN remaining } } :
            start \in starts_of(b, player) }

\* Recurses on the board it was given, not on the clone the move was applied to.
RECURSIVE backtrack_stale(_, _, _, _)
backtrack_stale(b, player, remaining, acc) ==
    IF remaining = << >> THEN {acc}
    ELSE LET cands == cands_of(b, player, remaining)
         IN IF cands = {} THEN {acc}
            ELSE UNION { backtrack_stale(b, player, RemoveFirst(remaining, m.die),
                                         Append(acc, m)) :
                         m \in cands }

\* backtrack: the routes appended to `routes` below this node.  The result
\* list is consumed as a collection; two search paths differ in some
\* (start, end, die), so the de-dup by key leaves the same routes.
RECURSIVE backtrack(_, _, _, _)
backtrack(b, player, remaining, acc) ==
    IF remaining = << >> THEN {acc}
    ELSE LET cands == cands_of(b, player, remaining)
         IN IF cands = {} THEN {acc}
            ELSE UNION { LET r == apply_single_move(b, player, m.start, m.end)
                         IN IF r.raised # "none" THEN {RaisedRoute}
                            ELSE backtrack(r.board, player,
                                           RemoveFirst(remaining, m.die),
                                           Append(acc, m)) :
                         m \in cands }

generate_all_routes(b, player, dice_list) == backtrack(b, player, dice_list, << >>)

\* --------------------------------------------------------------- engine
\* board, turn, dice: the Engine's fields.  err: the exception the last
\* operation raised ("none" if it returned).  op: the last operation called.
\* before: the board the last operation started from (apply_route is the only
\* operation that changes a board in play; for the others it is the board
\* they leave).
\* rolls: how many times roll() has been called.
\* search: what the last call of generate_routes or of a route picker was
\* given and what it returned; NoSearch after any other operation.
\* ui: the UIState of the pygame driver; state: the GameState of the
\* Tkinter game.  Each is idle while the other programs run.
VARIABLES board, turn, dice, err, op, before, rolls, search, ui, state

vars == <<board, turn, dice, err, op, before, rolls, search, ui, state>>

NoSearch == [kind |-> "none"]

NoUI == [kind |-> "none"]

NoState == [kind |-> "none"]

\* random.randint(1, 6)
Faces == 1..6

\* An apply_route that drops the last die of the list for every move.
RECURSIVE apply_route_pop(_, _, _, _)
apply_route_pop(b, player, d, moves) ==
    IF moves = << >> THEN [board |-> b, dice |-> d, raised |-> "none"]
    ELSE LET m == Head(moves)
             r == apply_single_move(b, player, m.start, m.end)
         IN IF r.raised # "none"
            THEN [board |-> r.board, dice |-> d, raised |-> r.raised]
            ELSE apply_route_pop(r.board, player, RemoveLast(d, m.die), Tail(moves))

\* Engine.apply_route on (board, dice): moves applied in order, each die
\* removed if present; an exception stops the loop where it is raised.
RECURSIVE apply_route(_, _, _, _)
apply_route(b, player, d, moves) ==
    IF moves = << >> THEN [board |-> b, dice |-> d, raised |-> "none"]
    ELSE LET m == Head(moves)
             r == apply_single_move(b, player, m.start, m.end)
         IN IF r.raised # "none"
            THEN [board |-> r.board, dice |-> d, raised |-> r.raised]
            ELSE apply_route(r.board, player, RemoveFirst(d, m.die), Tail(moves))

\* A win test that is one checker short.
has_won_short(b, p) == count_off(b, p) >= NumCheckers - 1

has_won(b, p) == count_off(b, p) >= NumCheckers

Init ==
    /\ board = standard_setup
    /\ turn = WHITE
    /\ dice = << >>
    /\ err = "none"
    /\ op = "init"
    /\ before = standard_setup
    /\ rolls = 0
    /\ search = NoSearch
    /\ ui = NoUI
    /\ state = NoState

NewGame ==
    /\ board' = standard_setup
    /\ turn' = WHITE
    /\ dice' = << >>
    /\ err' = "none"
    /\ op' = "new_game"
    /\ before' = standard_setup
    /\ search' = NoSearch
    /\ UNCHANGED rolls
    /\ UNCHANGED <<ui, state>>

Roll ==
    /\ rolls < MaxRolls
    /\ \E a \in Faces, b \in Faces : dice' = roll_dice(a, b)
    /\ rolls' = rolls + 1
    /\ err' = "none"
    /\ op' = "roll"
    /\ before' = board
    /\ search' = NoSearch
    /\ UNCHANGED <<board, turn>>
    /\ UNCHANGED <<ui, state>>

ApplyRoute ==
    /\ \E route \in generate_all_routes(board, turn, dice) :
         LET r == apply_route(board, turn, dice, route)
         IN /\ board' = r.board
            /\ dice' = r.dice
            /\ err' = r.raised
    /\ op' = "apply_route"
    /\ before' = board
    /\ search' = NoSearch
    /\ UNCHANGED <<turn, rolls>>
    /\ UNCHANGED <<ui, state>>

EndTurn ==
    /\ turn' = opponent(turn)
    /\ dice' = << >>
    /\ err' = "none"
    /\ op' = "end_turn"
    /\ before' = board
    /\ search' = NoSearch
    /\ UNCHANGED <<board, rolls>>
    /\ UNCHANGED <<ui, state>>

Next == NewGame \/ Roll \/ ApplyRoute \/ EndTurn

Spec == Init /\ [][Next]_vars

\* ------------------------------------------- routes in generation order
\* The searches below walk the routes in the order generate_all_routes
\* returns them, and pass the engine itself to it; this is the same
\* generator with the order kept and with the board it was given handed
\* back as the call leaves it.

\* The element of a one-element set.  The({ e(y) : y \in {x} }) is e(x) with
\* x worked out once, as a local variable holds a value.
The(S) == CHOOSE v \in S : TRUE

\* The elements of s, each kept at its first position (dict insertion order).
Distinct(s0) ==
    The({ The({ IF Cardinality(keep) = Len(s) THEN s
                ELSE [k \in 1..Cardinality(keep) |->
                        s[CHOOSE i \in keep : Cardinality({j \in keep : j <= i}) = k]]
                : keep \in {{i \in DOMAIN s : \A j \in 1..(i - 1) : s[j] # s[i]}} })
          : s \in {s0} })

starts_list(b, player) ==
    IF count_on_bar(b, player) > 0 THEN << bar_index(player) >>
    ELSE [i \in 1..24 |-> i]

\* cands of one start: for d in remaining, for (die, end) in the legal targets.
RECURSIVE cands_list(_, _, _, _)
cands_list(b, player, start, remaining) ==
    IF remaining = << >> THEN << >>
    ELSE legal_single_targets(b, player, start, << Head(remaining) >>)
         \o cands_list(b, player, start, Tail(remaining))

\* apply_single_move on the board itself instead of on a clone.
apply_in_place(b, player, m) ==
    The({ [b |-> r.board, r |-> r]
          : r \in {apply_single_move(b, player, m.start, m.end)} })

\* b2 = b.clone(); apply_single_move(b2, ...): b is the board that was
\* cloned, as the two statements leave it.
clone_and_apply(b, player, m) ==
    [b |-> b, r |-> apply_single_move(b, player, m.start, m.end)]

\* The lists ss[lo], ..., ss[hi] one after the other.
RECURSIVE FlattenRange(_, _, _)
FlattenRange(ss, lo, hi) ==
    IF lo > hi THEN << >>
    ELSE IF lo = hi THEN ss[lo]
    ELSE FlattenRange(ss, lo, (lo + hi) \div 2)
         \o FlattenRange(ss, (lo + hi) \div 2 + 1, hi)

\* The lists of ss, one after the other.
Flatten(ss0) == The({ FlattenRange(ss, 1, Len(ss)) : ss \in {ss0 \o << >>} })

\* The candidates one backtrack step explores, in loop order; used_mask
\* lets each (start, end, die) through once.
cands_in_order(b, player, remaining) ==
    LET at(start) ==
            The({ [i \in DOMAIN c |-> Move(start, c[i][2], c[i][1])]
                  : c \in {cands_list(b, player, start, remaining)} })
    IN The({ Distinct(Flatten([k \in DOMAIN starts |-> at(starts[k])]))
             : starts \in {starts_list(b, player)} })

\* One candidate of a backtrack step: the node's board as the clone and the
\* move leave it, and the routes appended below the candidate.
RECURSIVE backtrack_list(_, _, _, _)
backtrack_step(b, player, remaining, acc, cand) ==
    The({ [b |-> step.b,
           routes |-> IF step.r.raised # "none" THEN << RaisedRoute >>
                      ELSE backtrack_list(step.r.board, player,
                                          RemoveFirst(remaining, cand.die),
                                          Append(acc, cand)).routes]
          : step \in {clone_and_apply(b, player, cand)} })

\* backtrack_over: the loops of one backtrack call over its candidates.
backtrack_over(b, player, remaining, acc, cands) ==
    The({ The({ [b |-> IF changed = {} THEN b
                       ELSE steps[CHOOSE i \in changed :
                                     \A j \in changed : i <= j].b,
                 routes |-> IF cands = << >> THEN << acc >>
                            ELSE Flatten([i \in DOMAIN cands |-> steps[i].routes])]
                : changed \in {{i \in DOMAIN cands : steps[i].b # b}} })
          : steps \in {[i \in DOMAIN cands |->
                          backtrack_step(b, player, remaining, acc, cands[i])]
                       \o << >>} })

\* backtrack_list: one call of backtrack.  It gives the routes appended
\* below this node, in order, and the node's board as the call leaves it:
\* the board it was given unless a step changed it.
backtrack_list(b0, player, remaining0, acc0) ==
    The({ IF a[2] = << >> THEN [b |-> a[1], routes |-> << a[3] >>]
          ELSE The({ backtrack_over(a[1], player, a[2], a[3], cands)
                     : cands \in {cands_in_order(a[1], player, a[2])} })
          : a \in {<<b0, remaining0, acc0>>} })

\* generate_all_routes with the order kept: the board as the call leaves it
\* and the list of routes after the de-dup by key.
generate_all_routes_list(b, player, dice_list) ==
    The({ [b |-> w.b, routes |-> Distinct(w.routes)]
          : w \in {backtrack_list(b, player, dice_list, << >>)} })

\* ------------------------------------------------------ static evaluator
\* Scores are kept in hundredths, so that the weights and the sums of
\* products are integers; the arithmetic is exact.
pip_weight == -90
blot_weight == -80
anchor_weight == 60
bar_penalty == -120
opp_bar_pressure == 70
home_progress_weight == 60
borne_off_weight == 110
blockade_weight == 40

Min(x, y) == IF x <= y THEN x ELSE y
Max(x, y) == IF x >= y THEN x ELSE y

Largest(S) == CHOOSE x \in S : \A y \in S : y <= x

\* s[lo] + ... + s[hi].
RECURSIVE SumRange(_, _, _)
SumRange(s, lo, hi) ==
    IF lo > hi THEN 0
    ELSE IF lo = hi THEN s[lo]
    ELSE SumRange(s, lo, (lo + hi) \div 2) + SumRange(s, (lo + hi) \div 2 + 1, hi)

SumSeq(s0) == The({ SumRange(s, 1, Len(s)) : s \in {s0 \o << >>} })

pip_count(b, me) ==
    SumSeq([i \in 1..24 |->
              IF b[i].owner = me
              THEN (IF me = WHITE THEN i ELSE 25 - i) * b[i].checkers ELSE 0])

blot_count(b, me) ==
    Cardinality({i \in Points : b[i].owner = me /\ b[i].checkers = 1})

anchor_count(b, me) ==
    Cardinality({i \in Points : b[i].owner = me /\ b[i].checkers >= 2})

\* Evaluator.count_on_bar: slot 0 for WHITE, slot 25 for BLACK.
Evaluator_count_on_bar(b, p) == b[IF p = WHITE THEN 0 ELSE 25].checkers

\* Evaluator.count_borne_off: slot 25 for WHITE, slot 0 for BLACK.
count_borne_off(b, p) == b[IF p = WHITE THEN 25 ELSE 0].checkers

\* Evaluator.home_progress in fifteenths: inside / total is a multiple of
\* 1/15 whenever the player owns 15 checkers, and 1.0 when it owns none.
home_progress(b, me) ==
    LET home == IF me = WHITE THEN 1..6 ELSE 19..24
        off_idx == IF me = WHITE THEN 25 ELSE 0
        count(S) == SumSeq([i \in 1..28 |->
                       IF (i - 1) \in S /\ b[i - 1].owner = me
                       THEN b[i - 1].checkers ELSE 0])
        total == count(Slots)
        inside == count(home \cup {off_idx})
    IN IF total = 0 THEN 15 ELSE (15 * inside) \div total

\* A run counter that stays at 1.
blockade_run_flat(b, me, i) == 1

\* Evaluator.blockade_score in halves: each point held with 2 or more adds
\* run, the length of the run of such points that ends there (the loop's
\* counter, back at 0 after every other point).
blockade_run(b, me, i) ==
    LET held(j) == b[j].owner = me /\ b[j].checkers >= 2
        breaks == {j \in 1..i : ~held(j)}
    IN i - Largest({0} \cup breaks)

blockade_score(b, me) ==
    SumSeq([i \in 1..24 |->
              IF b[i].owner = me /\ b[i].checkers >= 2
              THEN blockade_run(b, me, i) ELSE 0])

\* Evaluator.evaluate with the default weights, in hundredths.
evaluate(board0, side_to_move) ==
    The({ LET me == side_to_move
              opp == opponent(me)
          IN pip_weight * pip_count(b, me) + (-pip_weight) * pip_count(b, opp)
             + blot_weight * blot_count(b, me) + (-blot_weight) * blot_count(b, opp)
             + anchor_weight * (anchor_count(b, me) - anchor_count(b, opp))
             + bar_penalty * Evaluator_count_on_bar(b, me)
             + opp_bar_pressure * Evaluator_count_on_bar(b, opp)
             + (home_progress_weight
                  * (home_progress(b, me) - home_progress(b, opp))) \div 15
             + borne_off_weight * (count_borne_off(b, me) - count_borne_off(b, opp))
             + (blockade_weight
                  * (blockade_score(b, me) - blockade_score(b, opp))) \div 2
          : b \in {board0} })

\* ------------------------------------------------- fuzzy route features
\* The helper functions of ai_fuzzy.py; those that share a name with a
\* method of Evaluator carry the prefix fuzzy_.
fuzzy_pip_count(b, p) ==
    SumSeq([i \in 1..24 |->
              IF b[i].owner = p
              THEN (IF p = WHITE THEN i ELSE 25 - i) * b[i].checkers ELSE 0])

fuzzy_blot_count(b, p) ==
    Cardinality({i \in Points : b[i].owner = p /\ b[i].checkers = 1})

fuzzy_anchor_count(b, p) ==
    Cardinality({i \in Points : b[i].owner = p /\ b[i].checkers >= 2})

\* on_bar: slot 0 for WHITE, slot 25 for BLACK.
on_bar(b, p) == b[IF p = WHITE THEN 0 ELSE 25].checkers

\* borne_off: slot 25 for WHITE, slot 0 for BLACK.
borne_off(b, p) == b[IF p = WHITE THEN 25 ELSE 0].checkers

\* home_progress of ai_fuzzy.py as the pair <<inside, total>>; the function
\* gives inside / total, and 1.0 when total is 0.
fuzzy_home_progress(b, p) ==
    LET home == IF p = WHITE THEN 1..6 ELSE 19..24
        off == IF p = WHITE THEN 25 ELSE 0
        count(S) == SumSeq([i \in 1..28 |->
                       IF (i - 1) \in S /\ b[i - 1].owner = p
                       THEN b[i - 1].checkers ELSE 0])
    IN The({ IF total = 0 THEN <<1, 1>> ELSE <<count(home \cup {off}), total>>
             : total \in {count(Slots)} })

\* hits_made(prev, nxt, me)
hits_made(prev, nxt, me) ==
    Max(0, on_bar(nxt, opponent(me)) - on_bar(prev, opponent(me)))

\* ------------------------------------------------------- fuzzy numbers
\* A float of ai_fuzzy.py is kept as the pair [v, e] that stands for
\* v - e * 1e-9, exact to first order in the 1e-9 the source adds to its
\* denominators; v and e are fractions <<numerator, denominator>> in lowest
\* terms with a positive denominator.
Abs(x) == IF x < 0 THEN -x ELSE x

RECURSIVE GCD(_, _)
GCD(a, b) == IF b = 0 THEN a ELSE GCD(b, a % b)

Q(n, d) ==
    The({ IF d < 0 THEN <<(-n) \div g, (-d) \div g>> ELSE <<n \div g, d \div g>>
          : g \in {GCD(Abs(n), Abs(d))} })

RatAdd(x, y) ==
    The({ Q(x[1] * (y[2] \div g) + y[1] * (x[2] \div g), (x[2] \div g) * y[2])
          : g \in {GCD(x[2], y[2])} })

RatSub(x, y) == RatAdd(x, <<-y[1], y[2]>>)

RatMul(x, y) ==
    The({ <<(x[1] \div gg[1]) * (y[1] \div gg[2]),
            (x[2] \div gg[2]) * (y[2] \div gg[1])>>
          : gg \in {<<GCD(Abs(x[1]), y[2]), GCD(Abs(y[1]), x[2])>>} })

RatDiv(x, y) == RatMul(x, Q(y[2], y[1]))

\* x < y, by whole parts and then by the remainders' reciprocals.
RECURSIVE RatLess(_, _)
RatLess(x, y) ==
    IF x[1] \div x[2] # y[1] \div y[2] THEN x[1] \div x[2] < y[1] \div y[2]
    ELSE IF x[1] % x[2] = 0 THEN y[1] % y[2] > 0
    ELSE IF y[1] % y[2] = 0 THEN FALSE
    ELSE RatLess(<<y[2], y[1] % y[2]>>, <<x[2], x[1] % x[2]>>)

RatLeq(x, y) == ~RatLess(y, x)

\* The floats 0.0, 1.0 and any other value that carries no 1e-9.
Exact(r) == [v |-> r, e |-> <<0, 1>>]

\* n / (d + 1e-9) for fractions n and d > 0.
Ramp(n, d) == The({ [v |-> q, e |-> RatDiv(q, d)] : q \in {RatDiv(n, d)} })

\* x < y on floats.
Less(x, y) == RatLess(x.v, y.v) \/ (x.v = y.v /\ RatLess(y.e, x.e))

\* min(x, y) and max(x, y) of Python: the first argument unless the second
\* is smaller (larger).
fmin(x, y) == IF Less(y, x) THEN y ELSE x
fmax(x, y) == IF Less(x, y) THEN y ELSE x

\* -------------------------------------------------------- fuzzy scoring
\* tri(x, a, b, c) and trap(x, a, b, c, d) on fractions.
tri(x, a, b, c) ==
    IF RatLeq(x, a) \/ RatLeq(c, x) THEN Exact(<<0, 1>>)
    ELSE IF x = b THEN Exact(<<1, 1>>)
    ELSE IF RatLess(x, b) THEN Ramp(RatSub(x, a), RatSub(b, a))
    ELSE Ramp(RatSub(c, x), RatSub(c, b))

trap(x, a, b, c, d) ==
    IF RatLeq(x, a) \/ RatLeq(d, x) THEN Exact(<<0, 1>>)
    ELSE IF RatLeq(b, x) /\ RatLeq(x, c) THEN Exact(<<1, 1>>)
    ELSE IF RatLess(a, x) /\ RatLess(x, b) THEN Ramp(RatSub(x, a), RatSub(b, a))
    ELSE Ramp(RatSub(d, x), RatSub(d, c))

\* FuzzyWeights.out_centers
out_centers == <<Q(2, 10), Q(5, 10), Q(85, 100)>>

\* The membership degrees of fuzzy_score.
memberships(feat) ==
    The({ [pip_s |-> tri(f.pg, Q(-2, 1), Q(0, 1), Q(4, 1)),
           pip_m |-> tri(f.pg, Q(2, 1), Q(6, 1), Q(10, 1)),
           pip_l |-> tri(f.pg, Q(8, 1), Q(14, 1), Q(22, 1)),
           hit_z |-> trap(f.hits, Q(-5, 10), Q(0, 1), Q(0, 1), Q(5, 10)),
           hit_1 |-> tri(f.hits, Q(5, 10), Q(1, 1), Q(15, 10)),
           hit_mn |-> tri(f.hits, Q(15, 10), Q(2, 1), Q(35, 10)),
           bl_l |-> tri(f.bl, Q(-5, 10), Q(0, 1), Q(2, 1)),
           bl_m |-> tri(f.bl, Q(1, 1), Q(3, 1), Q(5, 1)),
           bl_h |-> tri(f.bl, Q(4, 1), Q(7, 1), Q(12, 1)),
           an_l |-> tri(f.an, Q(-5, 10), Q(0, 1), Q(15, 10)),
           an_m |-> tri(f.an, Q(1, 1), Q(2, 1), Q(35, 10)),
           an_h |-> tri(f.an, Q(3, 1), Q(4, 1), Q(6, 1)),
           myb_z |-> trap(f.myb, Q(-5, 10), Q(0, 1), Q(0, 1), Q(5, 10)),
           myb_s |-> tri(f.myb, Q(5, 10), Q(1, 1), Q(25, 10)),
           myb_mn |-> tri(f.myb, Q(2, 1), Q(3, 1), Q(6, 1)),
           opb_z |-> trap(f.opb, Q(-5, 10), Q(0, 1), Q(0, 1), Q(5, 10)),
           opb_s |-> tri(f.opb, Q(5, 10), Q(1, 1), Q(25, 10)),
           opb_mn |-> tri(f.opb, Q(2, 1), Q(3, 1), Q(6, 1)),
           hm_l |-> tri(f.hm, Q(10, 100), Q(20, 100), Q(35, 100)),
           hm_m |-> tri(f.hm, Q(30, 100), Q(50, 100), Q(70, 100)),
           hm_h |-> tri(f.hm, Q(65, 100), Q(85, 100), Q(101, 100)),
           off_l |-> tri(f.off, Q(-5, 10), Q(0, 1), Q(3, 1)),
           off_m |-> tri(f.off, Q(2, 1), Q(5, 1), Q(9, 1)),
           off_h |-> tri(f.off, Q(8, 1), Q(11, 1), Q(155, 10))]
          : f \in {[pg |-> Q(feat.pip_gain, 1), hits |-> Q(feat.hits, 1),
                    bl |-> Q(feat.blots_after, 1),
                    an |-> Q(feat.anchors_after, 1),
                    myb |-> Q(feat.my_bar_after, 1),
                    opb |-> Q(feat.opp_bar_after, 1),
                    hm |-> Q(feat.home_progress_after[1],
                             feat.home_progress_after[2]),
                    off |-> Q(feat.borne_off_after, 1)]} })

\* The rule activations g (Good), o (Okay) and p (Poor) of fuzzy_score.
good_rules(m) ==
    fmax(fmax(fmax(fmax(fmax(fmax(Exact(<<0, 1>>),
        fmin(fmin(m.pip_l, m.bl_l), m.an_h)),
        fmin(fmin(m.hit_1, m.bl_l), m.pip_m)),
        fmin(m.hit_mn, m.bl_l)),
        fmin(m.hm_h, m.bl_l)),
        fmin(m.off_h, m.bl_l)),
        fmin(m.opb_mn, m.bl_l))

okay_rules(m) ==
    fmax(fmax(fmax(fmax(fmax(Exact(<<0, 1>>),
        fmin(m.pip_m, m.bl_m)),
        fmin(m.hit_1, m.bl_m)),
        fmin(m.an_m, m.pip_s)),
        fmin(m.hm_m, m.bl_m)),
        fmin(m.off_m, m.bl_m))

poor_rules(m) ==
    fmax(fmax(fmax(fmax(Exact(<<0, 1>>),
        fmin(m.bl_h, m.pip_s)),
        fmin(m.myb_s, m.pip_s)),
        fmin(m.myb_mn, Exact(<<1, 1>>))),
        fmin(m.hit_z, m.bl_h))

activations(feat) ==
    The({ [g |-> good_rules(m), o |-> okay_rules(m), p |-> poor_rules(m)]
          : m \in {memberships(feat)} })

\* c[1] * p + c[2] * o + c[3] * g on fractions.
Weighted(c, p, o, g) ==
    RatAdd(RatAdd(RatMul(p, c[1]), RatMul(o, c[2])), RatMul(g, c[3]))

\* The weighted average with nothing added to the denominator.
defuzzify_plain(a) ==
    The({ IF t.s = <<0, 1>> THEN Exact(<<0, 1>>)
          ELSE Exact(RatDiv(t.A, t.s))
          : t \in {[A |-> Weighted(out_centers, a.p.v, a.o.v, a.g.v),
                    s |-> Weighted(<<(<<1, 1>>), (<<1, 1>>), (<<1, 1>>)>>,
                                   a.p.v, a.o.v, a.g.v)]} })

\* num / den with num = A - B * 1e-9 and den = s - (b - 1) * 1e-9; with
\* all activations 0.0 the source divides 0.0 by 1e-9.
defuzzify(a) ==
    The({ IF t.s = <<0, 1>> THEN Exact(<<0, 1>>)
          ELSE [v |-> RatDiv(t.A, t.s),
                e |-> RatDiv(RatAdd(RatMul(t.B, t.s),
                                    RatMul(t.A, RatSub(<<1, 1>>, t.b))),
                             RatMul(t.s, t.s))]
          : t \in {[A |-> Weighted(out_centers, a.p.v, a.o.v, a.g.v),
                    B |-> Weighted(out_centers, a.p.e, a.o.e, a.g.e),
                    s |-> Weighted(<<(<<1, 1>>), (<<1, 1>>), (<<1, 1>>)>>,
                                   a.p.v, a.o.v, a.g.v),
                    b |-> Weighted(<<(<<1, 1>>), (<<1, 1>>), (<<1, 1>>)>>,
                                   a.p.e, a.o.e, a.g.e)]} })

fuzzy_score(feat) == defuzzify(activations(feat))

\* ------------------------------------------------------- minimax search
\* An Engine object as a record of its three fields.  A call that is handed
\* an engine gives back, next to its result, that engine as the call leaves
\* it, so that a call that changed the engine it was given would show.
EngineOf(b, t, d) == [board |-> b, turn |-> t, dice |-> d]

\* math.inf: beyond every score.
Inf == 1000000


\* Engine.generate_routes.
generate_routes(engine) ==
    The({ The({ [engine |-> [e EXCEPT !.board = g.b], routes |-> g.routes]
                : g \in {generate_all_routes_list(e.board, e.turn, e.dice)} })
          : e \in {engine} })

\* Engine.apply_route, Engine.end_turn and Engine.roll on the record.
engine_apply_route(engine, route) ==
    The({ The({ [e EXCEPT !.board = r.board, !.dice = r.dice]
                : r \in {apply_route(e.board, e.turn, e.dice, route)} })
          : e \in {engine} })

engine_end_turn(engine) ==
    The({ [e EXCEPT !.turn = opponent(e.turn), !.dice = << >>] : e \in {engine} })

engine_roll(engine, ab) == [engine EXCEPT !.dice = roll_dice(ab[1], ab[2])]

\* The route applied and the turn ended on the engine itself, not on a copy.
apply_route_on_alias(engine, route) ==
    The({ [arg |-> e2, ret |-> e2]
          : e2 \in {engine_end_turn(engine_apply_route(engine, route))} })

\* e2 = copy.deepcopy(engine); e2.apply_route(route); e2.end_turn()
apply_route_on_clone(engine, route) ==
    The({ [arg |-> e, ret |-> engine_end_turn(engine_apply_route(e, route))]
          : e \in {engine} })

\* e2 = copy.deepcopy(engine); e2.roll(); ab is the pair random.randint gave.
opponent_roll(engine, ab) ==
    The({ [arg |-> e, ret |-> engine_roll(e, ab)] : e \in {engine} })

\* A static evaluation that takes the side of the player not to move.
terminal_eval_other_side(engine) ==
    The({ evaluate(e.board, opponent(e.turn)) : e \in {engine} })

terminal_eval(engine) == The({ evaluate(e.board, e.turn) : e \in {engine} })

\* minimax_search is minimax with its random draws given by rnd (rnd.roll:
\* the pair every sampled roll gives, rnd.flip: whether random.random() <
\* 0.5 at a tie) and with the two `if alpha >= beta: break` tests taken only
\* when cut is TRUE.  reply_step is one pass of `for oroute in opp_routes`
\* and replies the passes for the replies lo..hi in order; branch is the
\* body of `for r in routes` up to the branch's score and line;
\* candidate_step is one pass of `for r in routes` and candidates the
\* passes for the routes lo..hi in order.  The loop variables are carried
\* in the record st; st.stop is set by the pass that takes the break, and
\* the passes after it leave st as it is.
RECURSIVE minimax_search(_, _, _, _, _, _, _)
RECURSIVE replies(_, _, _, _, _, _, _, _, _)
RECURSIVE candidates(_, _, _, _, _, _, _)

\* The reply applied on a clone that is never rolled.
after_reply_unrolled(after_opp_roll, oroute, depth, rnd) ==
    apply_route_on_clone(after_opp_roll, oroute).ret

\* after_opp = _apply_route_on_clone(after_opp_roll, oroute), rolled when
\* depth - 2 > 0.
after_reply(after_opp_roll, oroute, depth, rnd) ==
    The({ IF depth - 2 > 0 THEN engine_roll(cloned, rnd.roll) ELSE cloned
          : cloned \in {apply_route_on_clone(after_opp_roll, oroute).ret} })

reply_step(after_opp_roll, r, oroute, depth, st, rnd, cut) ==
    The({ LET sc == -m.score
              lower == sc < st.worst_for_me
              worst_for_me == IF lower THEN sc ELSE st.worst_for_me
              beta == Min(st.beta, -worst_for_me)
          IN [alpha |-> st.alpha,
              beta |-> beta,
              worst_for_me |-> worst_for_me,
              worst_reply_line |-> IF lower THEN <<r, oroute>> \o m.line
                                   ELSE st.worst_reply_line,
              debug |-> m.debug,
              stop |-> cut /\ st.alpha >= beta]
          : m \in {minimax_search(after_reply(after_opp_roll, oroute, depth, rnd),
                                  depth - 2, -st.beta, -st.alpha, st.debug,
                                  rnd, cut)} })

replies(after_opp_roll, r, opp_routes, lo, hi, depth, st, rnd, cut) ==
    IF st.stop \/ lo > hi THEN st
    ELSE IF lo = hi
    THEN reply_step(after_opp_roll, r, opp_routes[lo], depth, st, rnd, cut)
    ELSE The({ replies(after_opp_roll, r, opp_routes, (lo + hi) \div 2 + 1, hi,
                       depth, st1, rnd, cut)
               : st1 \in {replies(after_opp_roll, r, opp_routes, lo,
                                  (lo + hi) \div 2, depth, st, rnd, cut)} })

\* The branch of candidate r once after_my = c.ret and opp_routes = g.routes
\* are known.
branch_score(c, g, r, depth, alpha, beta, debug, rnd, cut) ==
    IF g.routes = << >> \/ depth - 1 = 0
    THEN [score |-> terminal_eval(g.engine), line |-> << r >>,
          beta |-> beta, debug |-> [debug EXCEPT !.evals = @ + 1],
          engine |-> c.arg]
    ELSE The({ [score |-> w.worst_for_me, line |-> w.worst_reply_line,
                beta |-> w.beta, debug |-> w.debug, engine |-> c.arg]
               : w \in {replies(g.engine, r, g.routes, 1, Len(g.routes), depth,
                                [alpha |-> alpha, beta |-> beta,
                                 worst_for_me |-> Inf,
                                 worst_reply_line |-> << >>, debug |-> debug,
                                 stop |-> FALSE],
                                rnd, cut)} })

branch(engine, r, depth, alpha, beta, debug, rnd, cut) ==
    The({ The({ branch_score(c, g, r, depth, alpha, beta, debug, rnd, cut)
                : g \in {generate_routes(opponent_roll(c.ret, rnd.roll).ret)} })
          : c \in {apply_route_on_clone(engine, r)} })

candidate_step(r, depth, st, rnd, cut) ==
    The({ LET take == \/ br.score > st.best_score
                      \/ br.score = st.best_score /\ rnd.flip
              best_score == IF take THEN br.score ELSE st.best_score
              alpha == Max(st.alpha, best_score)
          IN [engine |-> br.engine,
              alpha |-> alpha,
              beta |-> br.beta,
              best_score |-> best_score,
              best_line |-> IF take THEN br.line ELSE st.best_line,
              debug |-> br.debug,
              stop |-> cut /\ alpha >= br.beta]
          : br \in {branch(st.engine, r, depth, st.alpha, st.beta, st.debug,
                           rnd, cut)} })

candidates(routes, lo, hi, depth, st, rnd, cut) ==
    IF st.stop \/ lo > hi THEN st
    ELSE IF lo = hi THEN candidate_step(routes[lo], depth, st, rnd, cut)
    ELSE The({ candidates(routes, (lo + hi) \div 2 + 1, hi, depth, st1, rnd, cut)
               : st1 \in {candidates(routes, lo, (lo + hi) \div 2, depth, st,
                                     rnd, cut)} })

\* minimax once routes = g.routes is known and the node is counted.
search_node(g, depth, alpha, beta, counted, rnd, cut) ==
    IF depth = 0 \/ g.routes = << >>
    THEN [score |-> terminal_eval(g.engine), line |-> << >>,
          engine |-> g.engine,
          debug |-> [counted EXCEPT !.leaf_evals = @ + 1, !.evals = @ + 1]]
    ELSE The({ [score |-> st.best_score, line |-> st.best_line,
                engine |-> st.engine, debug |-> st.debug]
               : st \in {candidates(g.routes, 1, Len(g.routes), depth,
                                    [engine |-> g.engine, alpha |-> alpha,
                                     beta |-> beta, best_score |-> -Inf,
                                     best_line |-> << >>, debug |-> counted,
                                     stop |-> FALSE],
                                    rnd, cut)} })

minimax_search(engine, depth, alpha, beta, debug, rnd, cut) ==
    The({ search_node(a[1], a[2], a[3], a[4], a[5], rnd, cut)
          : a \in {<<generate_routes(engine), depth, alpha, beta,
                     [debug EXCEPT !.nodes = @ + 1, !.calls = @ + 1]>>} })

minimax(engine, depth, alpha, beta, debug, rnd) ==
    minimax_search(engine, depth, alpha, beta, debug, rnd, TRUE)

\* pick_best_route: best_route is a list of one route, or empty for None.
\* Beside the fields of SearchDebug the debug record of a search carries
\* calls, the invocations of minimax made, and evals, the calls of eval_fn
\* made (through _terminal_eval, lines 125 and 135); the source has neither.
pick_best_route(engine, depth, rnd) ==
    The({ [best_route |-> IF m.line # << >> THEN << m.line[1] >> ELSE << >>,
           score |-> m.score,
           debug |-> [nodes |-> m.debug.nodes, leaf_evals |-> m.debug.leaf_evals,
                      best_line |-> m.line],
           calls |-> m.debug.calls, evals |-> m.debug.evals,
           engine |-> m.engine]
          : m \in {minimax(engine, depth, -Inf, Inf,
                           [nodes |-> 0, leaf_evals |-> 0, calls |-> 0,
                            evals |-> 0], rnd)} })

\* ------------------------------------------------- calls of the pickers
\* e2 = copy.deepcopy(engine); e2.apply_route(route) in
\* extract_route_features.
features_on_clone(engine, route) ==
    The({ [arg |-> e, ret |-> engine_apply_route(e, route)] : e \in {engine} })

\* extract_route_features(engine, route): the engine as the call leaves it
\* and the RouteFeatures it returns.
extract_route_features(engine, route) ==
    The({ The({ [arg |-> c.arg,
                 ret |-> [pip_gain |-> fuzzy_pip_count(c.arg.board, me)
                                        - fuzzy_pip_count(c.ret.board, me),
                          hits |-> hits_made(c.arg.board, c.ret.board, me),
                          blots_after |-> fuzzy_blot_count(c.ret.board, me),
                          anchors_after |-> fuzzy_anchor_count(c.ret.board, me),
                          my_bar_after |-> on_bar(c.ret.board, me),
                          opp_bar_after |-> on_bar(c.ret.board, opponent(me)),
                          home_progress_after |->
                              fuzzy_home_progress(c.ret.board, me),
                          borne_off_after |-> borne_off(c.ret.board, me)]]
                : me \in {c.arg.turn} })
          : c \in {features_on_clone(engine, route)} })

\* A loop body that lets a later route take over at an equal score.
fuzzy_step_last(st, r) ==
    The({ The({ [engine |-> x.arg,
                 scored |-> Append(st.scored, [route |-> r, s |-> s, f |-> x.ret]),
                 best_r |-> IF ~Less(s, st.best_s) THEN r ELSE st.best_r,
                 best_s |-> IF ~Less(s, st.best_s) THEN s ELSE st.best_s]
                : s \in {fuzzy_score(x.ret)} })
          : x \in {extract_route_features(st.engine, r)} })

\* The body of the loop of pick_best_route_fuzzy for route r: the route is
\* scored and appended, and it becomes the best when its score is larger.
fuzzy_step(st, r) ==
    The({ The({ [engine |-> x.arg,
                 scored |-> Append(st.scored, [route |-> r, s |-> s, f |-> x.ret]),
                 best_r |-> IF Less(st.best_s, s) THEN r ELSE st.best_r,
                 best_s |-> IF Less(st.best_s, s) THEN s ELSE st.best_s]
                : s \in {fuzzy_score(x.ret)} })
          : x \in {extract_route_features(st.engine, r)} })

RECURSIVE fuzzy_loop(_, _, _, _)
fuzzy_loop(st, routes, lo, hi) ==
    IF lo > hi THEN st
    ELSE IF lo = hi THEN fuzzy_step(st, routes[lo])
    ELSE The({ fuzzy_loop(st1, routes, (lo + hi) \div 2 + 1, hi)
               : st1 \in {fuzzy_loop(st, routes, lo, (lo + hi) \div 2)} })

\* pick_best_route_fuzzy(engine): the engine as the call leaves it, the
\* routes it generated and the triple it returns.
pick_best_route_fuzzy(engine) ==
    The({ IF g.routes = << >>
          THEN [engine |-> g.engine, routes |-> g.routes, best_r |-> None,
                best_s |-> Exact(<<0, 1>>), scored |-> << >>]
          ELSE The({ [engine |-> st.engine, routes |-> g.routes,
                      best_r |-> st.best_r, best_s |-> st.best_s,
                      scored |-> st.scored]
                     : st \in {fuzzy_loop([engine |-> g.engine, scored |-> << >>,
                                           best_r |-> None,
                                           best_s |-> Exact(<<-1, 1>>)],
                                          g.routes, 1, Len(g.routes))} })
          : g \in {generate_routes(engine)} })

\* The draws a search makes: the pair each sampled roll gives and the side
\* each tie-break coin falls on.
Draws ==
    [roll : (1..MaxSampleFace) \X (1..MaxSampleFace), flip : BOOLEAN]

\* A call leaves in the engine's fields what the callee left there.
Leaves(engine) ==
    /\ board' = engine.board
    /\ turn' = engine.turn
    /\ dice' = engine.dice
    /\ err' = "none"
    /\ before' = board
    /\ UNCHANGED <<rolls, ui, state>>

GenerateRoutes ==
    /\ search = NoSearch
    /\ \E on \in {EngineOf(board, turn, dice)} :
       \E g \in {generate_routes(on)} :
          /\ Leaves(g.engine)
          /\ search' = [kind |-> "routes", on |-> on, routes |-> g.routes]
    /\ op' = "generate_routes"

PickBestRoute ==
    /\ search = NoSearch
    /\ \E depth \in 0..MaxDepth, rnd \in Draws :
       \E on \in {EngineOf(board, turn, dice)} :
       \E res \in {pick_best_route(on, depth, rnd)} :
          /\ Leaves(res.engine)
          /\ search' = [kind |-> "minimax", on |-> on, depth |-> depth,
                        rnd |-> rnd, best_route |-> res.best_route,
                        score |-> res.score, debug |-> res.debug,
                        calls |-> res.calls, evals |-> res.evals]
    /\ op' = "pick_best_route"

PickBestRouteFuzzy ==
    /\ search = NoSearch
    /\ \E on \in {EngineOf(board, turn, dice)} :
       \E res \in {pick_best_route_fuzzy(on)} :
          /\ Leaves(res.engine)
          /\ search' = [kind |-> "fuzzy", on |-> on, routes |-> res.routes,
                        best_route |-> res.best_r, score |-> res.best_s,
                        scored |-> res.scored]
    /\ op' = "pick_best_route_fuzzy"

\* ------------------------------------------------ positions to start from
\* A layout lists <<slot, count>> for one side's checkers on the board or
\* bar; the rest of that side's 15 checkers are in its off-tray.
RECURSIVE OnBoard(_)
OnBoard(layout) ==
    IF layout = << >> THEN 0 ELSE Head(layout)[2] + OnBoard(Tail(layout))

RECURSIVE PutAll(_, _, _)
PutAll(b, layout, owner) ==
    IF layout = << >> THEN b
    ELSE PutAll(put(b, Head(layout)[1], Head(layout)[2], owner), Tail(layout), owner)

Place(b, layout, owner) ==
    LET rest == NumCheckers - OnBoard(layout)
        b1 == PutAll(b, layout, owner)
    IN IF rest > 0 THEN put(b1, off_index(owner), rest, owner) ELSE b1

WhiteLayouts ==
    { << <<0, 1>>, <<2, 1>> >>,
      << <<3, 1>>, <<5, 2>> >>,
      << <<7, 1>>, <<2, 1>> >>,
      << <<0, 2>>, <<5, 2>> >>,
      << <<1, 1>> >>,
      << <<9, 2>>, <<7, 2>>, <<3, 1>> >> }

BlackLayouts ==
    { << <<22, 2>>, <<23, 1>> >>,
      << <<26, 1>>, <<23, 1>> >>,
      << <<20, 2>>, <<22, 1>> >>,
      << <<18, 1>>, <<23, 1>> >>,
      << <<24, 1>> >>,
      << <<26, 1>>, <<4, 1>>, <<6, 2>> >> }

Positions ==
    {standard_setup} \cup
    { Place(Place(EmptyBoard, w, WHITE), k, BLACK) : w \in WhiteLayouts, k \in BlackLayouts }

InitPos ==
    /\ board \in Positions
    /\ turn \in Player
    /\ dice = << >>
    /\ err = "none"
    /\ op = "init"
    /\ before = board
    /\ rolls = 0
    /\ search = NoSearch
    /\ ui = NoUI
    /\ state = NoState

SpecPos == InitPos /\ [][Next]_vars

\* ------------------------------------------------------- end of the game
\* Positions in which each player has one or two checkers left to bear off.
EndPositions ==
    { Place(Place(EmptyBoard, w, WHITE), k, BLACK) :
        w \in { << <<1, 1>> >>, << <<3, 1>>, <<1, 1>> >> },
        k \in { << <<24, 1>> >>, << <<20, 1>> >> } }

InitEnd ==
    /\ board \in EndPositions
    /\ turn \in Player
    /\ dice = << >>
    /\ err = "none"
    /\ op = "init"
    /\ before = board
    /\ rolls = 0
    /\ search = NoSearch
    /\ ui = NoUI
    /\ state = NoState

RollEnd ==
    /\ rolls < MaxEndRolls
    /\ \E a \in Faces, b \in Faces : dice' = roll_dice(a, b)
    /\ rolls' = rolls + 1
    /\ err' = "none"
    /\ op' = "roll"
    /\ before' = board
    /\ search' = NoSearch
    /\ UNCHANGED <<board, turn>>
    /\ UNCHANGED <<ui, state>>

NextEnd == RollEnd \/ ApplyRoute \/ EndTurn

SpecEnd == InitEnd /\ [][NextEnd]_vars

\* ------------------------------------------- routes the caller hands in
\* Engine.apply_route takes whatever TurnRoute its caller holds.  Here the
\* caller holds a route generated for the board and some roll d of small
\* faces, and applies it whatever dice the engine has at that time.
ApplyGivenRoute ==
    /\ search = NoSearch
    /\ \E a \in 1..MaxSampleFace, b \in 1..MaxSampleFace :
       \E route \in generate_all_routes(board, turn, roll_dice(a, b)) :
         LET r == apply_route(board, turn, dice, route)
         IN /\ board' = r.board
            /\ dice' = r.dice
            /\ err' = r.raised
            /\ search' = [kind |-> "applied", route |-> route, dice |-> dice]
    /\ op' = "apply_route"
    /\ before' = board
    /\ UNCHANGED <<turn, rolls>>
    /\ UNCHANGED <<ui, state>>

\* ------------------------------------------------- positions to search
\* Small positions in which rolls of small faces bring about a race with
\* bearing off, BLACK on the bar in front of a held point, contact with
\* blots to capture, and WHITE on the bar.
SearchPositions ==
    { Place(Place(EmptyBoard, p[1], WHITE), p[2], BLACK) :
        p \in { << << <<1, 1>>, <<2, 1>> >>, << <<24, 1>>, <<23, 1>> >> >>,
                << << <<1, 2>>, <<3, 1>> >>, << <<26, 1>>, <<22, 1>> >> >>,
                << << <<6, 1>>, <<4, 1>> >>, << <<3, 1>>, <<5, 1>> >> >>,
                << << <<0, 1>>, <<5, 1>> >>, << <<23, 2>>, <<24, 1>> >> >> } }

InitSearch ==
    /\ board \in SearchPositions
    /\ turn \in Player
    /\ dice = << >>
    /\ err = "none"
    /\ op = "init"
    /\ before = board
    /\ rolls = 0
    /\ search = NoSearch
    /\ ui = NoUI
    /\ state = NoState

\* Engine.roll with both faces among the small ones.
RollSmall ==
    /\ rolls < MaxRolls
    /\ \E a \in 1..MaxSampleFace, b \in 1..MaxSampleFace : dice' = roll_dice(a, b)
    /\ rolls' = rolls + 1
    /\ err' = "none"
    /\ op' = "roll"
    /\ before' = board
    /\ search' = NoSearch
    /\ UNCHANGED <<board, turn>>
    /\ UNCHANGED <<ui, state>>

NextSearch == RollSmall \/ GenerateRoutes \/ PickBestRoute \/ PickBestRouteFuzzy

SpecSearch == InitSearch /\ [][NextSearch]_vars

NextGiven == RollSmall \/ ApplyGivenRoute

SpecGiven == InitSearch /\ [][NextGiven]_vars

\* ------------------------------------------------- scoring on its own
\* The feature vectors fuzzy_score is given: pip gains three apart, blots
\* and anchors two apart, each bar empty or at its largest or (the mover's)
\* holding one, home progress and borne-off checkers five apart.
SampleFeatures ==
    [pip_gain : {x \in -3..MaxPipGain : x % 3 = 0},
     hits : 0..MaxHits,
     blots_after : {x \in 0..MaxBlots : x % 2 = 0},
     anchors_after : {x \in 0..MaxAnchors : x % 2 = 0},
     my_bar_after : {0, 1, MaxBar},
     opp_bar_after : {0, MaxBar},
     home_progress_after : {<<x, 15>> : x \in {y \in 0..15 : y % 5 = 0}},
     borne_off_after : {y \in 0..15 : y % 5 = 0}]

InitFuzzy ==
    /\ board = standard_setup
    /\ turn = WHITE
    /\ dice = << >>
    /\ err = "none"
    /\ op = "init"
    /\ before = board
    /\ rolls = 0
    /\ search \in [kind : {"features"}, f : SampleFeatures]
    /\ ui = NoUI
    /\ state = NoState

FuzzyScore ==
    /\ search.kind = "features"
    /\ \E a \in {activations(search.f)} :
          search' = [kind |-> "score", f |-> search.f, act |-> a,
                     s |-> defuzzify(a)]
    /\ op' = "fuzzy_score"
    /\ UNCHANGED <<board, turn, dice, err, before, rolls>>
    /\ UNCHANGED <<ui, state>>

NextFuzzy == FuzzyScore

SpecFuzzy == InitFuzzy /\ [][NextFuzzy]_vars

\* -------------------------------------------------------- pygame driver
\* ui_pygame.py: the Engine, the UIState built on it and the event loop of
\* main.  A handler works on a record w of the engine, the UIState, the
\* exception it caught ("none" if none) and a log of what it did: the dice
\* it rolled, the single moves it applied, the dice the engine held when
\* it last rolled or moved, and whether it ended the turn.  The hint text
\* is display only and left out.
NoLog == [kind |-> "handler", rolled |-> << >>, moved |-> 0, left |-> << >>,
          passed |-> FALSE]

EmptyMap == [s \in {} |-> {}]

\* UIState.__init__: WHITE is the human, BLACK the AI.  selected_start is
\* the set of the slot selected, empty for None.
UIState(ai_mode) ==
    [kind |-> "pygame", selected_start |-> {}, legal_map |-> EmptyMap,
     target_die |-> EmptyMap, ai_mode |-> ai_mode,
     ai_sides |-> [p \in Player |-> p = BLACK], ai_auto |-> TRUE,
     ai_busy |-> FALSE, game_over |-> FALSE, winner |-> None]

World(e, u) == [eng |-> e, ui |-> u, raised |-> "none", log |-> NoLog]

\* UIState._check_game_over
check_game_over(w) ==
    IF has_won(w.eng.board, WHITE)
    THEN [w EXCEPT !.ui.game_over = TRUE, !.ui.winner = WHITE]
    ELSE IF has_won(w.eng.board, BLACK)
    THEN [w EXCEPT !.ui.game_over = TRUE, !.ui.winner = BLACK]
    ELSE w

\* Engine.legal_targets_from, as the set of its (die, end) pairs.
legal_targets_from(e, s) ==
    Range(legal_single_targets(e.board, e.turn, s, e.dice))

\* UIState.refresh_legals: legal_map[s] is sorted(set(ends)), a list that
\* is only ever searched, kept as the set; target_die[(s, end)] is the
\* smallest die that reaches end from s.
refresh_legals(w) ==
    The({ The({ [w EXCEPT
                  !.ui.legal_map =
                      [s \in keys |-> { t[2] : t \in pairs[s] }],
                  !.ui.target_die =
                      [k \in UNION { { <<s, t[2]>> : t \in pairs[s] } :
                                     s \in keys } |->
                         CHOOSE d \in { t[1] : t \in pairs[k[1]] } :
                            /\ <<d, k[2]>> \in pairs[k[1]]
                            /\ \A t \in pairs[k[1]] : t[2] = k[2] => d <= t[1]]]
                : keys \in { { s \in DOMAIN pairs : pairs[s] # {} } } })
          : pairs \in { [s \in (IF w.eng.board[bar_index(w.eng.turn)].checkers > 0
                                THEN {bar_index(w.eng.turn)} ELSE Points) |->
                           legal_targets_from(w.eng, s)] } })

\* UIState.has_any_legal: the refreshed UIState and the answer.
has_any_legal(w) ==
    The({ [w |-> r, ret |-> DOMAIN r.ui.legal_map # {}]
          : r \in {refresh_legals(w)} })

\* An end_turn that goes on after the game is over.
UIState_end_turn_always(w) ==
    [w EXCEPT !.eng = engine_end_turn(@),
              !.ui.selected_start = {},
              !.ui.legal_map = EmptyMap,
              !.ui.target_die = EmptyMap,
              !.log.passed = TRUE]

\* UIState.end_turn
UIState_end_turn(w) ==
    IF w.ui.game_over THEN w
    ELSE [w EXCEPT !.eng = engine_end_turn(@),
                   !.ui.selected_start = {},
                   !.ui.legal_map = EmptyMap,
                   !.ui.target_die = EmptyMap,
                   !.log.passed = TRUE]

\* A try_roll that rolls whether or not dice are active.
try_roll_again(w, ab) ==
    IF w.ui.game_over THEN w
    ELSE The({ IF DOMAIN r.ui.legal_map = {} THEN UIState_end_turn(r) ELSE r
               : r \in { refresh_legals(
                           [w EXCEPT !.eng = engine_roll(@, ab),
                                     !.log.rolled = roll_dice(ab[1], ab[2]),
                                     !.log.left = roll_dice(ab[1], ab[2])]) } })

\* A try_roll that leaves a player without a legal move on the roll.
try_roll_no_pass(w, ab) ==
    IF w.ui.game_over THEN w
    ELSE IF w.eng.dice # << >> THEN w
    ELSE refresh_legals([w EXCEPT !.eng = engine_roll(@, ab),
                                  !.log.rolled = roll_dice(ab[1], ab[2]),
                                  !.log.left = roll_dice(ab[1], ab[2])])

\* UIState.try_roll; ab is the pair random.randint gives if Engine.roll is
\* reached.
try_roll(w, ab) ==
    IF w.ui.game_over THEN w
    ELSE IF w.eng.dice # << >> THEN w
    ELSE The({ IF DOMAIN r.ui.legal_map = {} THEN UIState_end_turn(r) ELSE r
               : r \in { refresh_legals(
                           [w EXCEPT !.eng = engine_roll(@, ab),
                                     !.log.rolled = roll_dice(ab[1], ab[2]),
                                     !.log.left = roll_dice(ab[1], ab[2])]) } })

\* self.eng.apply_route(TurnRoute(moves=[m])) inside a try: the engine as
\* the call leaves it and the exception caught.
apply_one(w, m) ==
    The({ [w EXCEPT !.eng.board = r.board, !.eng.dice = r.dice,
                    !.raised = r.raised,
                    !.log.moved = IF r.raised = "none" THEN @ + 1 ELSE @,
                    !.log.left = r.dice]
          : r \in {apply_route(w.eng.board, w.eng.turn, w.eng.dice, << m >>)} })

\* UIState.apply_single
apply_single(w, start, end) ==
    IF w.ui.game_over THEN w
    ELSE IF start \notin DOMAIN w.ui.legal_map THEN w
    ELSE IF end \notin w.ui.legal_map[start] THEN w
    ELSE IF <<start, end>> \notin DOMAIN w.ui.target_die THEN w
    ELSE The({ IF a.raised # "none" THEN a
               ELSE The({ IF c.ui.game_over THEN c
                          ELSE IF c.eng.dice = << >> \/ DOMAIN c.ui.legal_map = {}
                          THEN UIState_end_turn(c)
                          ELSE c
                          : c \in {check_game_over(refresh_legals(a))} })
               : a \in {apply_one(w, Move(start, end,
                                          w.ui.target_die[<<start, end>>]))} })

\* UIState.pick_route: the engine as the picker leaves it and the route, a
\* list of one route or empty for None.  The fuzzy picker's best_r is None
\* until a route is scored: every score is above the -1.0 best_s starts at.
pick_route(w, rnd) ==
    IF w.ui.ai_mode = "Minimax"
    THEN The({ [engine |-> res.engine, route |-> res.best_route]
               : res \in {pick_best_route(w.eng, 2, rnd)} })
    ELSE The({ [engine |-> res.engine,
                route |-> IF res.scored = << >> THEN << >> ELSE << res.best_r >>]
               : res \in {pick_best_route_fuzzy(w.eng)} })

\* for m in route.moves: self.eng.apply_route(TurnRoute(moves=[m]))
RECURSIVE apply_each(_, _)
apply_each(w, moves) ==
    IF moves = << >> \/ w.raised # "none" THEN w
    ELSE apply_each(apply_one(w, Head(moves)), Tail(moves))

\* The rest of run_ai_if_needed once dice are active.
play_route(w, rnd) ==
    The({ The({ IF a.raised # "none" THEN a
                ELSE The({ IF c.ui.game_over THEN c ELSE UIState_end_turn(c)
                           : c \in {check_game_over(a)} })
                : a \in { IF p.route # << >> /\ p.route[1] # << >>
                          THEN apply_each([w EXCEPT !.eng = p.engine], p.route[1])
                          ELSE [w EXCEPT !.eng = p.engine] } })
          : p \in {pick_route(w, rnd)} })

\* UIState.run_ai_if_needed; _ai_busy is set on entry and cleared in the
\* finally clause, and no handler runs in between.
run_ai_if_needed(w, ab, rnd) ==
    IF w.ui.game_over THEN w
    ELSE IF ~w.ui.ai_auto \/ ~w.ui.ai_sides[w.eng.turn] \/ w.ui.ai_busy THEN w
    ELSE IF w.eng.dice = << >>
    THEN The({ IF r.ui.game_over \/ ~r.ui.ai_sides[r.eng.turn] THEN r
               ELSE IF r.eng.dice = << >> THEN r
               ELSE play_route(r, rnd)
               : r \in {try_roll(w, ab)} })
    ELSE play_route(w, rnd)

\* The end of one pass of main's loop: the AI, then the automatic pass of
\* a human who holds dice and has no legal move.
frame_end(w, ab, rnd) ==
    The({ IF ~a.ui.game_over /\ a.eng.dice # << >>
          THEN The({ IF ~h.ret /\ ~h.w.ui.ai_sides[h.w.eng.turn]
                     THEN UIState_end_turn(h.w) ELSE h.w
                     : h \in {has_any_legal(a)} })
          ELSE a
          : a \in {run_ai_if_needed(w, ab, rnd)} })

\* The [F] key.
finish_key(w) ==
    IF w.eng.dice = << >> THEN UIState_end_turn(w)
    ELSE The({ IF ~h.ret THEN UIState_end_turn(h.w) ELSE h.w
               : h \in {has_any_legal(w)} })

\* A left click that lands on slot idx; r is w as ui.refresh_legals()
\* leaves it, for the branches that call it.
click(w, r, idx) ==
    IF w.eng.dice = << >> THEN w
    ELSE IF w.ui.selected_start = {}
    THEN IF idx \in DOMAIN r.ui.legal_map
         THEN [r EXCEPT !.ui.selected_start = {idx}] ELSE r
    ELSE IF w.ui.selected_start = {idx}
    THEN [w EXCEPT !.ui.selected_start = {}]
    ELSE IF \E st \in w.ui.selected_start \cap DOMAIN w.ui.legal_map :
               idx \in w.ui.legal_map[st]
    THEN [apply_single(w, The(w.ui.selected_start), idx)
            EXCEPT !.ui.selected_start = {}]
    ELSE [r EXCEPT !.ui.selected_start =
                     IF idx \in DOMAIN r.ui.legal_map THEN {idx} ELSE {}]

\* The slots a click can land on: a point, or the mover's bar while it
\* holds a checker (point_at_pos gives no other slot).
Clickable(b, t) ==
    Points \cup (IF b[bar_index(t)].checkers > 0 THEN {bar_index(t)} ELSE {})

\* A handler leaves w behind it; counted is the count of rolls it set out
\* with.
Handled(w, name, counted) ==
    /\ board' = w.eng.board
    /\ turn' = w.eng.turn
    /\ dice' = w.eng.dice
    /\ ui' = w.ui
    /\ err' = w.raised
    /\ search' = w.log
    /\ rolls' = IF w.log.rolled # << >> THEN counted + 1 ELSE counted
    /\ op' = name
    /\ before' = board
    /\ UNCHANGED state

Now == World(EngineOf(board, turn, dice), ui)

\* run_ai_if_needed has something to do.
AIToMove == ~ui.game_over /\ ui.ai_auto /\ ui.ai_sides[turn] /\ ~ui.ai_busy

\* The pairs Engine.roll may draw, and the draws of a search: one value
\* stands for all where the handler draws none.
RollDraws(rolling) ==
    IF rolling THEN (1..MaxSampleFace) \X (1..MaxSampleFace) ELSE {<<1, 1>>}

SearchDraws(searching) ==
    IF searching THEN Draws ELSE {[roll |-> <<1, 1>>, flip |-> FALSE]}

\* [N]: eng.new_game(); ui = UIState(eng, ai_mode).  A run is followed
\* up to the first roll of a new game: the new game uses up the rolls left.
KeyN ==
    /\ ui.kind = "pygame"
    /\ Handled(World(EngineOf(standard_setup, WHITE, << >>),
                     UIState(ui.ai_mode)), "new_game", MaxUIRolls)

\* [R]: ui.try_roll()
KeyR ==
    /\ ui.kind = "pygame"
    /\ (~ui.game_over /\ dice = << >>) => rolls < MaxUIRolls
    /\ \E ab \in RollDraws(~ui.game_over /\ dice = << >>) :
          Handled(try_roll(Now, ab), "try_roll", rolls)

\* [F]
KeyF ==
    /\ ui.kind = "pygame"
    /\ Handled(finish_key(Now), "finish", rolls)

\* A left click on a point or on the bar column.
Click ==
    /\ ui.kind = "pygame"
    /\ \E r \in {refresh_legals(Now)} :
       \E idx \in Clickable(board, turn) :
          Handled(click(Now, r, idx), "click", rolls)

\* The end of a pass of the loop.
Frame ==
    /\ ui.kind = "pygame"
    /\ (AIToMove /\ dice = << >>) => rolls < MaxUIRolls
    /\ \E ab \in RollDraws(AIToMove /\ dice = << >>) :
       \E rnd \in SearchDraws(AIToMove /\ ui.ai_mode = "Minimax") :
          Handled(frame_end(Now, ab, rnd), "frame", rolls)

\* Positions for the driver: contact with blots, BLACK on the bar in front
\* of held points, WHITE on the bar in front of a held point with one and
\* with two checkers, and BLACK with one or two checkers left to bear off.
UIPositions ==
    { Place(Place(EmptyBoard, p[1], WHITE), p[2], BLACK) :
        p \in { << << <<6, 1>>, <<4, 1>> >>, << <<3, 1>>, <<5, 1>> >> >>,
                << << <<1, 2>>, <<3, 1>> >>, << <<26, 1>>, <<22, 1>> >> >>,
                << << <<0, 1>>, <<5, 1>> >>, << <<23, 2>>, <<24, 1>> >> >>,
                << << <<0, 2>> >>, << <<23, 2>> >> >>,
                << << <<6, 1>> >>, << <<24, 1>> >> >>,
                << << <<5, 1>> >>, << <<23, 1>>, <<24, 1>> >> >> } }

InitUI ==
    /\ board \in UIPositions
    /\ turn \in Player
    /\ dice = << >>
    /\ err = "none"
    /\ op = "init"
    /\ before = board
    /\ rolls = 0
    /\ search = NoSearch
    /\ ui \in { UIState(m) : m \in {"Minimax", "Fuzzy"} }
    /\ state = NoState

NextUI == KeyN \/ KeyR \/ KeyF \/ Click \/ Frame

SpecUI == InitUI /\ [][NextUI]_vars

\* --------------------------------------------------------- Tkinter game
\* main_game.py: a GameState and the handlers of SmartGammonUI.  Both
\* colours move from point 1 towards point 24.  The bar as an origin is
\* slot 0; a bear-off target is 0 for white and 25 for black.  ai_mode is
\* left out: the three AI hooks all call run_random_ai_move.
WHITE_HOME == 19..24
BLACK_HOME == 1..6

Mine(pt, color) == IF color = "white" THEN pt.white ELSE pt.black

\* GameState.setup_initial
InitialPoints ==
    [i \in Points |->
       [white |-> CASE i = 1 -> 2 [] i = 12 -> 5 [] i = 17 -> 3 [] i = 19 -> 5
                    [] OTHER -> 0,
        black |-> CASE i = 24 -> 2 [] i = 13 -> 5 [] i = 8 -> 3 [] i = 6 -> 5
                    [] OTHER -> 0]]

\* A GameState as setup_initial leaves it but for the points; selected_point
\* is the set of the point selected, empty for None.
GameState(pts) ==
    [kind |-> "tk", points |-> pts, bar_white |-> 0, bar_black |-> 0,
     off_white |-> 0, off_black |-> 0, dice |-> << >>, turn |-> "white",
     moves_remaining |-> << >>, selected_point |-> {}, game_over |-> FALSE]

roll_two_dice(a, b) == IF a = b THEN <<a, a, a, a>> ELSE <<a, b>>

BarOf(s, color) == IF color = "white" THEN s.bar_white ELSE s.bar_black

\* all_in_home of main_game.py, and bearing_off_allowed.
tk_all_in_home(s, color) ==
    /\ BarOf(s, color) = 0
    /\ \A idx \in Points :
          Mine(s.points[idx], color) > 0 =>
              idx \in (IF color = "white" THEN WHITE_HOME ELSE BLACK_HOME)

bearing_off_allowed(s, color) == tk_all_in_home(s, color)

point_has_blocking_color(pt, moving_color) ==
    IF moving_color = "white" THEN pt.black >= 2 ELSE pt.white >= 2

\* The entries (die, target, False) from the bar.
bar_entries(s, color) ==
    { <<die, die, FALSE>> : die \in { d \in Range(s.moves_remaining) :
          d \in Points /\ ~point_has_blocking_color(s.points[d], color) } }

\* legal_moves_from_point: the tuples (die, target, is_bearing_off) of the
\* list it returns; at most one of them has a given target on the board.
legal_moves_from_point(s, from_idx, color) ==
    IF BarOf(s, color) > 0 THEN bar_entries(s, color)
    ELSE IF from_idx < 1 \/ from_idx > 24 THEN {}
    ELSE UNION { IF from_idx + die > 24
                 THEN IF bearing_off_allowed(s, color)
                      THEN { <<die, IF color = "white" THEN 0 ELSE 25, TRUE>> }
                      ELSE {}
                 ELSE IF ~point_has_blocking_color(s.points[from_idx + die], color)
                      THEN { <<die, from_idx + die, FALSE>> }
                      ELSE {}
                 : die \in Range(s.moves_remaining) }

\* all_legal_moves: the tuples (from_idx, die, target, is_bearoff).
all_legal_moves(s, color) ==
    IF BarOf(s, color) > 0
    THEN { <<0, m[1], m[2], m[3]>> : m \in bar_entries(s, color) }
    ELSE UNION { { <<idx, m[1], m[2], m[3]>> :
                     m \in legal_moves_from_point(s, idx, color) } :
                 idx \in { i \in Points : Mine(s.points[i], color) > 0 } }

\* The target's side of apply_move for a move that is not a bear-off.
land(s, target_idx, color) ==
    IF target_idx = 0 \/ target_idx = 25
    THEN IF color = "white" THEN [s EXCEPT !.off_white = @ + 1]
         ELSE [s EXCEPT !.off_black = @ + 1]
    ELSE IF color = "white"
    THEN IF s.points[target_idx].black = 1 /\ s.points[target_idx].white = 0
         THEN [s EXCEPT !.points[target_idx] = [white |-> 1, black |-> 0],
                        !.bar_black = @ + 1]
         ELSE [s EXCEPT !.points[target_idx].white = @ + 1]
    ELSE IF s.points[target_idx].white = 1 /\ s.points[target_idx].black = 0
         THEN [s EXCEPT !.points[target_idx] = [white |-> 0, black |-> 1],
                        !.bar_white = @ + 1]
         ELSE [s EXCEPT !.points[target_idx].black = @ + 1]

\* The origin's side of apply_move; from_idx 0 is the bar.
lift(s, from_idx, color) ==
    IF from_idx = 0
    THEN IF color = "white"
         THEN [s EXCEPT !.bar_white = IF @ > 0 THEN @ - 1 ELSE @]
         ELSE [s EXCEPT !.bar_black = IF @ > 0 THEN @ - 1 ELSE @]
    ELSE IF color = "white"
    THEN [s EXCEPT !.points[from_idx].white = @ - 1]
    ELSE [s EXCEPT !.points[from_idx].black = @ - 1]

\* apply_move: one die out of moves_remaining (the first one left if the
\* die is not there), the checker off its origin and onto its target.
apply_move(s, from_idx, die, target_idx, color, is_bearoff) ==
    The({ IF is_bearoff
          THEN IF color = "white" THEN [t EXCEPT !.off_white = @ + 1]
               ELSE [t EXCEPT !.off_black = @ + 1]
          ELSE land(t, target_idx, color)
          : t \in { lift([s EXCEPT !.moves_remaining =
                              IF die \in Range(@) THEN RemoveFirst(@, die)
                              ELSE IF @ # << >> THEN Tail(@) ELSE @],
                         from_idx, color) } })

check_game_end(s) ==
    IF s.off_white >= 15 \/ s.off_black >= 15
    THEN [s EXCEPT !.game_over = TRUE] ELSE s

\* run_random_ai_move: the states it can leave, one for each way the calls
\* of random.choice can fall.
RECURSIVE run_random_ai_move(_)
run_random_ai_move(s) ==
    The({ IF moves = {} \/ s.moves_remaining = << >>
          THEN { check_game_end([s EXCEPT !.turn = "white",
                                          !.moves_remaining = << >>]) }
          ELSE The({ UNION { run_random_ai_move(
                                 apply_move(s, m[1], m[2], m[3], "black", m[4])) :
                             m \in (IF hits # {} THEN hits ELSE moves) }
                     : hits \in { { m \in moves :
                                      /\ m[3] \notin {0, 25}
                                      /\ s.points[m[3]].white = 1
                                      /\ m[1] # 0 } } })
          : moves \in { all_legal_moves(s, "black") } })

\* SmartGammonUI.end_player_turn: the states it can leave.
end_player_turn(s) == run_random_ai_move([s EXCEPT !.turn = "black"])

\* SmartGammonUI.on_roll: the states it can leave; a, b are the faces
\* random.randint gives if the dice are rolled.
on_roll(s, a, b) ==
    IF s.game_over THEN {s}
    ELSE IF s.turn # "white" \/ s.moves_remaining # << >> THEN {s}
    ELSE The({ IF all_legal_moves(r, "white") = {} THEN end_player_turn(r)
               ELSE {r}
               : r \in { [s EXCEPT !.dice = roll_two_dice(a, b),
                                   !.moves_remaining = roll_two_dice(a, b)] } })

\* The branch of on_canvas_click for a player with checkers on the bar.
click_from_bar(s, idx) ==
    The({ IF t.moves_remaining = << >> THEN end_player_turn(t) ELSE {t}
          : t \in { IF idx \in Range(s.moves_remaining)
                       /\ ~point_has_blocking_color(s.points[idx], "white")
                    THEN apply_move(s, 0, idx, idx, "white", FALSE)
                    ELSE s } })

\* The branch of on_canvas_click that tries to move the selected checker.
click_target(s, idx) ==
    The({ The({ IF chosen # {}
                THEN The({ IF t.moves_remaining = << >>
                           THEN end_player_turn(t) ELSE {t}
                           : t \in { The({ [apply_move(s, from_idx, m[1], m[2],
                                                      "white", m[3])
                                             EXCEPT !.selected_point = {}]
                                           : m \in chosen }) } })
                ELSE { [s EXCEPT !.selected_point =
                                   IF s.points[idx].white > 0 THEN {idx} ELSE {}] }
                : chosen \in { { m \in legal_moves_from_point(s, from_idx, "white") :
                                   m[2] = idx } } })
          : from_idx \in s.selected_point })

\* SmartGammonUI.on_canvas_click on a click that lands on point idx: the
\* states it can leave.
on_canvas_click(s, idx) ==
    IF idx < 1 \/ idx > 24 THEN {s}
    ELSE IF s.turn # "white" \/ s.moves_remaining = << >> THEN {s}
    ELSE IF s.bar_white > 0 THEN click_from_bar(s, idx)
    ELSE IF s.selected_point = {}
    THEN IF s.points[idx].white > 0
         THEN { [s EXCEPT !.selected_point = {idx}] } ELSE {s}
    ELSE click_target(s, idx)

\* SmartGammonUI.check_for_end_and_promote, called by periodic_check.
check_for_end_and_promote(s) ==
    IF s.off_white >= 15 \/ s.off_black >= 15
    THEN [s EXCEPT !.game_over = TRUE] ELSE s

\* What a handler of the Tkinter game leaves alone.
TkHandled(name) ==
    /\ op' = name
    /\ UNCHANGED <<board, turn, dice, err, before, search, ui>>

OnRoll ==
    /\ state.kind = "tk"
    /\ (~state.game_over /\ state.turn = "white" /\ state.moves_remaining = << >>)
          => rolls < MaxTkRolls
    /\ \E a \in Faces, b \in Faces :
          /\ state' \in on_roll(state, a, b)
          /\ rolls' = IF ~state.game_over /\ state.turn = "white"
                              /\ state.moves_remaining = << >>
                      THEN rolls + 1 ELSE rolls
    /\ TkHandled("on_roll")

OnCanvasClick ==
    /\ state.kind = "tk"
    /\ \E idx \in Points : state' \in on_canvas_click(state, idx)
    /\ TkHandled("on_canvas_click")
    /\ UNCHANGED rolls

\* SmartGammonUI.restart_game
RestartGame ==
    /\ state.kind = "tk"
    /\ state' = GameState(InitialPoints)
    /\ TkHandled("restart_game")
    /\ UNCHANGED rolls

\* SmartGammonUI.periodic_check, every 600 ms.
PeriodicCheck ==
    /\ state.kind = "tk"
    /\ state' = check_for_end_and_promote(state)
    /\ TkHandled("periodic_check")
    /\ UNCHANGED rolls

\* Positions of White to start from, each met in play from the initial
\* setup with Black where it started: White with all checkers in its home
\* quadrant, White spread over the board, and White with two checkers left
\* outside its home quadrant.
TkLayouts ==
    { << <<19, 5>>, <<20, 1>>, <<21, 2>>, <<22, 2>>, <<23, 5>> >>,
      << <<2, 1>>, <<7, 1>>, <<12, 2>>, <<18, 1>>, <<19, 6>>, <<21, 1>>, <<23, 3>> >>,
      << <<18, 2>>, <<20, 1>>, <<21, 3>>, <<22, 2>>, <<23, 7>> >> }

\* The points with White laid out as the layout says.
RECURSIVE WhiteAt(_, _)
WhiteAt(pts, layout) ==
    IF layout = << >> THEN pts
    ELSE WhiteAt([pts EXCEPT ![Head(layout)[1]].white = Head(layout)[2]],
                 Tail(layout))

TkPositions ==
    {InitialPoints} \cup
    { WhiteAt([i \in Points |-> [InitialPoints[i] EXCEPT !.white = 0]], l) :
        l \in TkLayouts }

InitTk ==
    /\ board = standard_setup
    /\ turn = WHITE
    /\ dice = << >>
    /\ err = "none"
    /\ op = "init"
    /\ before = standard_setup
    /\ rolls = 0
    /\ search = NoSearch
    /\ ui = NoUI
    /\ state \in { GameState(pts) : pts \in TkPositions }

NextTk == OnRoll \/ OnCanvasClick \/ RestartGame \/ PeriodicCheck

SpecTk == InitTk /\ [][NextTk]_vars

\* ================================================================ claims
\* The routes generate_routes() returns in the current state.
Routes == generate_all_routes(board, turn, dice)

RECURSIVE SumOver(_, _, _)
SumOver(b, p, S) ==
    IF S = {} THEN 0
    ELSE LET i == CHOOSE x \in S : TRUE
         IN (IF b[i].owner = p THEN b[i].checkers ELSE 0) + SumOver(b, p, S \ {i})

\* Checkers of player p on the 28 slots of board b.
Total(b, p) == SumOver(b, p, Slots)

\* The last operation was an apply_route that captured an opposing checker.
JustHit ==
    /\ op = "apply_route"
    /\ count_on_bar(board, opponent(turn)) > count_on_bar(before, opponent(turn))

\* The last operation was an apply_route that bore a checker off.
JustBoreOff ==
    /\ op = "apply_route"
    /\ count_off(board, turn) > count_off(before, turn)

\* C1 - Checker conservation: after any sequence of roll, apply_route (of a
\* generated route), end_turn and new_game, each player has exactly 15
\* checkers over the 28 slots.
C1_CheckerConservation ==
    \A p \in Player : Total(board, p) = 15

\* C1 witness: a route that both captured and bore off has been applied, and
\* both players still hold 15 checkers.
C1_Witness ==
    /\ JustHit
    /\ \E q \in Player : count_off(board, q) > count_off(before, q)
    /\ \A p \in Player : Total(board, p) = 15

\* C2 - Point exclusivity: every slot has checkers = 0 exactly when it has no
\* owner, its owner is one player or none, and no operation was refused for
\* adding a checker to a slot the other player owns.
C2_PointExclusivity ==
    /\ \A i \in Slots :
          /\ board[i].checkers >= 0
          /\ board[i].owner \in Player \cup {None}
          /\ (board[i].checkers = 0) <=> (board[i].owner = None)
    /\ err = "none"

\* C2 witness: a capture has been applied; the captured point changed owner
\* and the start slot was vacated.
C2_Witness ==
    /\ JustHit
    /\ \E i \in Points :
          /\ before[i].owner = opponent(turn)
          /\ board[i] = [checkers |-> 1, owner |-> turn]
    /\ \E i \in Slots :
          /\ before[i] = [checkers |-> 1, owner |-> turn]
          /\ board[i] = EmptyPoint

\* How often face v occurs in the dice list d.
Count(d, v) == Cardinality({i \in DOMAIN d : d[i] = v})

\* How often die value v is used by route r.
Used(r, v) == Cardinality({i \in DOMAIN r : r[i].die = v})

\* The engine after the first k moves of route r have been applied.
After(r, k) == apply_route(board, turn, dice, SubSeq(r, 1, k))

\* C3 - Maximal usage: if some generated route consumes all rolled dice, no
\* generated route leaves a die unused.
C3_MaximalUsage ==
    (\E r \in Routes : Len(r) = Len(dice))
        => (\A r \in Routes : Len(r) = Len(dice))

\* C4 - Legal dice usage: the die values of every generated route form a
\* sub-multiset of the dice, so a route has at most |D| <= 4 moves.
C4_LegalDiceUsage ==
    \A r \in Routes :
        /\ \A i \in DOMAIN r : r[i].die \in Range(dice)
        /\ \A v \in Faces : Used(r, v) <= Count(dice, v)
        /\ Len(r) <= Len(dice)
        /\ Len(dice) <= 4

\* C4 witness: doubles were rolled and some generated route plays all four.
C4_Witness ==
    /\ Len(dice) = 4
    /\ \E r \in Routes : Len(r) = 4 /\ Used(r, dice[1]) = 4

\* C5 - Early termination only when stuck: after a generated route with fewer
\* moves than dice, no admissible origin (the bar if the mover is on the bar,
\* else each point 1..24) has a legal target for any remaining die.
C5_EarlyTermination ==
    \A r \in Routes :
        Len(r) < Len(dice) =>
            LET a == After(r, Len(r))
                origins == IF a.board[bar_index(turn)].checkers > 0
                           THEN {bar_index(turn)} ELSE 1..24
            IN /\ a.raised = "none"
               /\ Len(a.dice) = Len(dice) - Len(r)
               /\ \A start \in origins :
                    /\ legal_single_targets(a.board, turn, start, a.dice) = << >>
                    /\ \A i \in DOMAIN a.dice :
                         legal_single_targets(a.board, turn, start, <<a.dice[i]>>) = << >>

\* C5 witness: some generated route plays a move and then stops with a die left.
C5_Witness ==
    \E r \in Routes : 0 < Len(r) /\ Len(r) < Len(dice)

\* C6 - Route soundness: every generated route replays from the current board
\* without an exception, and each move (start, end, die) is among the targets
\* legal_single_targets reports for start on the board left by the moves
\* before it, for the dice then remaining.
C6_RouteSoundness ==
    /\ RaisedRoute \notin Routes
    /\ \A r \in Routes :
         \A k \in 1..Len(r) :
            LET pre == After(r, k - 1)
            IN /\ pre.raised = "none"
               /\ <<r[k].die, r[k].end>> \in
                     Range(legal_single_targets(pre.board, turn, r[k].start, pre.dice))
               /\ apply_single_move(pre.board, turn, r[k].start, r[k].end).raised = "none"

\* C6 witness: a generated route whose second move starts where its first
\* move landed, a slot the mover did not hold on the input board.
C6_Witness ==
    \E r \in Routes :
        /\ Len(r) >= 2
        /\ r[2].start = r[1].end
        /\ board[r[1].end].owner # turn

\* The single moves of player p's checkers on board b that legal_single_targets
\* reports for the remaining dice rem, over all 28 slots.
MovesOfCheckers(b, p, rem) ==
    UNION { { Move(s, t[2], t[1]) : t \in Range(legal_single_targets(b, p, s, rem)) } :
            s \in {x \in Slots : b[x].owner = p /\ b[x].checkers > 0} }

\* Every sequence of such moves, each on the board the moves before it leave
\* and each using one remaining die, that uses all dice or cannot go on.
RECURSIVE MaximalSequences(_, _, _)
MaximalSequences(b, p, rem) ==
    LET M == MovesOfCheckers(b, p, rem)
    IN IF rem = << >> \/ M = {} THEN { << >> }
       ELSE UNION { { <<m>> \o rest :
                        rest \in MaximalSequences(
                                    apply_single_move(b, p, m.start, m.end).board,
                                    p, RemoveFirst(rem, m.die)) } :
                    m \in M }

\* C7 - Route completeness: generate_all_routes returns exactly the maximal
\* sequences of legal single moves of the mover's checkers; none is missing
\* and none is extra.
C7_RouteCompleteness ==
    Routes = MaximalSequences(board, turn, dice)

\* C7 witness: two different dice, and generated routes that open with each
\* of them.
C7_Witness ==
    /\ Len(dice) = 2
    /\ \E r1, r2 \in Routes :
          /\ Len(r1) = 2 /\ Len(r2) = 2
          /\ r1[1].die = dice[1] /\ r2[1].die = dice[2]
    /\ Routes = MaximalSequences(board, turn, dice)

\* The dice lists the legality engine is asked about in a state: the active
\* dice and every single die.
DiceLists == {dice} \cup { <<d>> : d \in Faces }

\* C8 - Bar precedence: while a player has a checker on their bar slot,
\* legal_single_targets is empty for every other start, and no generated
\* route moves from a point at a step where the mover is still on the bar.
C8_BarPrecedence ==
    /\ \A p \in Player :
         board[IF p = WHITE THEN 0 ELSE 26].checkers > 0 =>
            \A start \in Slots \ {IF p = WHITE THEN 0 ELSE 26}, dl \in DiceLists :
                legal_single_targets(board, p, start, dl) = << >>
    /\ \A r \in Routes :
         \A k \in 1..Len(r) :
            After(r, k - 1).board[bar_index(turn)].checkers > 0
                => r[k].start = bar_index(turn)

\* C8 witness: the mover has one checker on the bar and other checkers on
\* points, and a generated route enters and then moves from a point.
C8_Witness ==
    /\ count_on_bar(board, turn) = 1
    /\ \E i \in Points : board[i].owner = turn
    /\ \E r \in Routes :
          /\ Len(r) = 2
          /\ r[1].start = bar_index(turn)
          /\ r[2].start \in Points

\* C9 - Bar entry targets: from the player's bar slot legal_single_targets
\* returns, in dice order, exactly (d, 25-d) for WHITE and (d, d) for BLACK
\* for the dice whose target the opponent does not hold with 2 or more; each
\* target lies in the opponent's home quadrant.
C9_BarEntryTargets ==
    \A p \in Player, dl \in DiceLists :
        LET target(d) == IF p = WHITE THEN 25 - d ELSE d
            open(d) == ~(/\ board[target(d)].owner = (IF p = WHITE THEN BLACK ELSE WHITE)
                         /\ board[target(d)].checkers >= 2)
            ds == SelectSeq(dl, open)
            res == legal_single_targets(board, p, IF p = WHITE THEN 0 ELSE 26, dl)
        IN /\ res = [i \in 1..Len(ds) |-> <<ds[i], target(ds[i])>>]
           /\ \A i \in DOMAIN res :
                res[i][2] \in (IF p = WHITE THEN 19..24 ELSE 1..6)

\* C9 witness: the mover is on the bar with dice active; one die enters and
\* another is blocked.
C9_Witness ==
    /\ count_on_bar(board, turn) > 0
    /\ LET res == legal_single_targets(board, turn, bar_index(turn), dice)
       IN 0 < Len(res) /\ Len(res) < Len(dice)

\* All of p's checkers on b are in p's home quadrant or off-tray.
HomeOrOff(b, p) ==
    SumOver(b, p, (IF p = WHITE THEN 1..6 ELSE 19..24) \cup {IF p = WHITE THEN 25 ELSE 27})
        = Total(b, p)

\* C10 - Bearing-off precondition: from a point the player holds, a die that
\* overflows the board is a legal target exactly when all the player's
\* checkers are in home or off, its destination then being the off-tray;
\* a die that does not overflow never leads to the off-tray; and in every
\* generated route a checker enters the off-tray only at such a step.
C10_BearingOff ==
    /\ \A p \in Player :
         LET home == HomeOrOff(board, p)
             off == IF p = WHITE THEN 25 ELSE 27
         IN \A start \in Points, d \in Faces :
              LET res == legal_single_targets(board, p, start, <<d>>)
                  over == IF p = WHITE THEN start - d < 1 ELSE start + d > 24
              IN /\ (board[start].owner = p /\ over) =>
                       /\ home => res = << <<d, off>> >>
                       /\ ~home => res = << >>
                 /\ ~over => \A i \in DOMAIN res : res[i][2] \in 1..24
    /\ \A r \in Routes :
         \A k \in 1..Len(r) :
            r[k].end = off_index(turn) => HomeOrOff(After(r, k - 1).board, turn)

\* C10 witness: the mover is not yet all in home, and a generated route
\* brings the last checker home and then bears off with an overflowing die.
C10_Witness ==
    /\ ~HomeOrOff(board, turn)
    /\ \E r \in Routes :
          /\ Len(r) = 2
          /\ r[2].end = off_index(turn)
          /\ r[2].start + dir(turn) * r[2].die \notin 0..25

\* C11 - Capture frame effect: a legal move of one of the player's checkers
\* onto a point holding exactly one opposing checker leaves that point with
\* exactly one checker of the mover, adds one to the opponent's bar, takes
\* one from the start slot, and changes no other slot.
C11_CaptureFrame ==
    \A p \in Player, start \in Slots, d \in Faces :
        board[start].owner = p =>
            LET res == legal_single_targets(board, p, start, <<d>>)
                opp == opponent(p)
                oppbar == IF opp = WHITE THEN 0 ELSE 26
            IN \A i \in DOMAIN res :
                 LET end == res[i][2]
                     r == apply_single_move(board, p, start, end)
                 IN (end \in Points /\ board[end] = [checkers |-> 1, owner |-> opp]) =>
                      /\ r.raised = "none"
                      /\ r.board[end] = [checkers |-> 1, owner |-> p]
                      /\ r.board[oppbar] =
                            [checkers |-> board[oppbar].checkers + 1, owner |-> opp]
                      /\ r.board[start].checkers = board[start].checkers - 1
                      /\ \A j \in Slots \ {start, end, oppbar} :
                            r.board[j] = board[j]

\* C11 witness: with dice active, the mover has a legal move onto an opposing
\* blot while the opponent already has a checker on the bar.
C11_Witness ==
    /\ dice # << >>
    /\ count_on_bar(board, opponent(turn)) > 0
    /\ \E start \in Slots :
          /\ board[start].owner = turn
          /\ LET res == legal_single_targets(board, turn, start, dice)
             IN \E i \in DOMAIN res :
                  /\ res[i][2] \in Points
                  /\ board[res[i][2]] = [checkers |-> 1, owner |-> opponent(turn)]

\* has_won agrees with "the off-tray holds exactly 15 checkers, all the
\* player has".
WonIffAllOff(b) ==
    \A p \in Player :
        has_won(b, p) <=>
            /\ b[IF p = WHITE THEN 25 ELSE 27] = [checkers |-> 15, owner |-> p]
            /\ \A i \in Slots \ {IF p = WHITE THEN 25 ELSE 27} : b[i].owner # p

BothWon(b) == has_won(b, WHITE) /\ has_won(b, BLACK)

\* C12 - Win condition: in every reachable state has_won(player) is true
\* exactly when the player's off-tray holds 15 checkers, and at most one
\* player has won.
C12_WinCondition ==
    /\ \A p \in Player :
          has_won(board, p) <=> board[IF p = WHITE THEN 25 ELSE 27].checkers = 15
    /\ ~BothWon(board)

\* C12 as amended: has_won(player) is true exactly when the player's off-tray
\* holds 15 checkers, all the player has; a state in which both players have
\* won arises only by applying a route for the player to move after the
\* other player had already won.
C12_WinConditionAmended ==
    [][ /\ WonIffAllOff(board)
        /\ WonIffAllOff(board')
        /\ (~BothWon(board) /\ BothWon(board')) =>
              /\ op' = "apply_route"
              /\ has_won(board, opponent(turn))
              /\ ~has_won(board, turn) ]_vars

\* C12 witness: the route just applied bore off the mover's last checker
\* while the opponent still has checkers in play.
C12_Witness ==
    /\ op = "apply_route"
    /\ has_won(board, turn)
    /\ ~has_won(before, turn)
    /\ ~has_won(board, opponent(turn))

\* No die gives player p a legal move that starts in an off-tray slot.
NoMoveFromOff(b) ==
    \A p \in Player, start \in {25, 27}, d \in Faces :
        legal_single_targets(b, p, start, <<d>>) = << >>

\* C13 - Off-tray monotonicity: no legal move starts in an off-tray slot, and
\* no roll, applied route or turn change lowers either player's off-tray
\* count, so has_won(player), once true, stays true until new_game.
C13_OffTrayMonotonic ==
    [][ /\ NoMoveFromOff(board)
        /\ op' # "new_game" =>
              \A p \in Player :
                 /\ count_off(board', p) >= count_off(board, p)
                 /\ has_won(board, p) => has_won(board', p) ]_vars

\* C13 witness: a player who has won is still the winner after the turn has
\* changed.
C13_Witness ==
    /\ op = "end_turn"
    /\ has_won(board, opponent(turn))
    /\ count_off(board, turn) > 0

\* The opening position with WHITE to move and dice [3, 1].
Opening31 == board = standard_setup /\ turn = WHITE /\ dice = <<3, 1>>

\* C14 - Opening scenario: from the standard layout with WHITE to move and
\* dice [3, 1], die 3 from point 24 has (3, 21) among its legal targets, and
\* the generator returns a non-empty set of routes of at most 2 moves.
C14_OpeningScenario ==
    Opening31 =>
        /\ \E i \in DOMAIN legal_single_targets(board, WHITE, 24, <<3>>) :
              legal_single_targets(board, WHITE, 24, <<3>>)[i] = <<3, 21>>
        /\ Routes # {}
        /\ \A r \in Routes : Len(r) <= 2

\* C14 witness: the opening roll [3, 1] has just been made, and the route
\* 24 -> 21 -> 20 is among the generated ones.
C14_Witness ==
    /\ Opening31
    /\ op = "roll"
    /\ << Move(24, 21, 3), Move(21, 20, 1) >> \in Routes

\* C15 - Simulation purity: a call of generate_routes, of pick_best_route
\* (any depth) or of pick_best_route_fuzzy leaves the engine's board, turn
\* and dice as they were before the call.
C15_SimulationPurity ==
    [][ op' \in {"generate_routes", "pick_best_route", "pick_best_route_fuzzy"}
           => /\ board' = board
              /\ turn' = turn
              /\ dice' = dice ]_vars

\* C15 witness: a search of depth 3 has returned a line of three routes, the
\* first of which moves a checker: routes were applied, turns ended and
\* rolls sampled on the way.
C15_Witness ==
    /\ search.kind = "minimax"
    /\ search.depth = 3
    /\ Len(search.debug.best_line) = 3
    /\ search.best_route # << >>
    /\ search.best_route[1] # << >>
    /\ search.debug.nodes > 3

\* C16 - Depth-0 search: pick_best_route with depth 0 returns the static
\* evaluation of the root board for the side to move, an empty principal
\* variation and no best route, counting one node and one leaf evaluation.
C16_DepthZero ==
    (search.kind = "minimax" /\ search.depth = 0) =>
        /\ search.score = evaluate(search.on.board, search.on.turn)
        /\ search.debug.best_line = << >>
        /\ search.best_route = << >>
        /\ search.debug.nodes = 1
        /\ search.debug.leaf_evals = 1

\* C16 witness: a depth-0 search was made while the side to move had dice
\* and a route that moves a checker, on a board the two sides value
\* differently.
C16_Witness ==
    /\ search.kind = "minimax"
    /\ search.depth = 0
    /\ \E r \in generate_all_routes(board, turn, dice) : r # << >>
    /\ evaluate(board, turn) # evaluate(board, opponent(turn))

\* The debug counters a search starts with.
NoDebug == [nodes |-> 0, leaf_evals |-> 0, calls |-> 0, evals |-> 0]

\* The search that was made, repeated with every cutoff disabled.
WithoutCutoffs ==
    minimax_search(search.on, search.depth, -Inf, Inf, NoDebug, search.rnd, FALSE)

\* The board after the side to move of engine e has played route r.
BoardAfter(e, r) == apply_route(e.board, e.turn, e.dice, r).board

\* The largest and the smallest member of a non-empty set of integers.
Smallest(S) == CHOOSE x \in S : \A y \in S : x <= y

\* The value to the mover of the worst reply to candidate route r: the
\* smallest static evaluation, for the mover, of the boards the opponent's
\* routes with the sampled roll lead to.
WorstReplyValue(e, r, rnd) ==
    LET b1 == BoardAfter(e, r)
        opp == opponent(e.turn)
        roll == roll_dice(rnd.roll[1], rnd.roll[2])
    IN Smallest({ evaluate(apply_route(b1, opp, roll, o).board, e.turn) :
                    o \in generate_all_routes(b1, opp, roll) })

\* C17 - Worst-reply scoring at depth 2: when the side to move has dice and
\* no cutoff was taken, the score
\* of the search is the worst-reply value of the returned route, and no
\* candidate route has a better worst-reply value.
C17_WorstReplyScoring ==
    (/\ search.kind = "minimax"
     /\ search.depth = 2
     /\ search.on.dice # << >>
     /\ search.best_route # << >>
     /\ WithoutCutoffs.debug.nodes = search.debug.nodes) =>
        LET e == search.on
            value(r) == WorstReplyValue(e, r, search.rnd)
        IN /\ search.score = value(search.best_route[1])
           /\ \A r \in generate_all_routes(e.board, e.turn, e.dice) :
                 value(r) <= value(search.best_route[1])

\* C18 - Alpha-beta soundness: called with the full window, the search
\* returns the score of the same search with every cutoff disabled.
C18_AlphaBetaSoundness ==
    search.kind = "minimax" => search.score = WithoutCutoffs.score

\* C19 - Depth-1 branch score: at depth 1 the score is the static evaluation,
\* for the mover, of the board after the returned route, and no candidate
\* route leads to a board the mover values higher.
C19_DepthOneScore ==
    (/\ search.kind = "minimax"
     /\ search.depth = 1
     /\ search.on.dice # << >>
     /\ search.best_route # << >>) =>
        LET e == search.on
            value(r) == evaluate(BoardAfter(e, r), e.turn)
        IN /\ search.score = value(search.best_route[1])
           /\ \A r \in generate_all_routes(e.board, e.turn, e.dice) :
                 value(r) <= value(search.best_route[1])

\* After candidate route r and the sampled roll the opponent has no legal
\* single move.
OpponentStuck(e, r, rnd) ==
    generate_all_routes(BoardAfter(e, r), opponent(e.turn),
                        roll_dice(rnd.roll[1], rnd.roll[2])) = { << >> }

\* C20 - Opponent-stuck branch: at depth 2 or more, a candidate route after
\* which the opponent has no legal single move with the sampled roll is
\* scored without a recursive call, and its line is the candidate alone.
C20_OpponentStuckBranch ==
    (search.kind = "minimax" /\ search.depth >= 2 /\ search.on.dice # << >>) =>
        LET e == search.on
            routes == generate_routes(e).routes
        IN \A i \in DOMAIN routes :
             OpponentStuck(e, routes[i], search.rnd) =>
                LET br == branch(e, routes[i], search.depth, -Inf, Inf, NoDebug,
                                 search.rnd, TRUE)
                IN /\ br.line = << routes[i] >>
                   /\ br.debug.nodes = 0

\* The side to move has dice and no legal single move with them.
Stuck(e) ==
    /\ e.dice # << >>
    /\ generate_all_routes(e.board, e.turn, e.dice) = { << >> }

\* C21 - No-routes leaf: a search of depth 1 or more on an engine whose side
\* to move has no legal single move returns the static evaluation of the
\* board for the side to move, an empty line and one leaf evaluation, and
\* pick_best_route returns no route.
C21_NoRoutesLeaf ==
    (search.kind = "minimax" /\ search.depth >= 1 /\ Stuck(search.on)) =>
        /\ search.score = evaluate(search.on.board, search.on.turn)
        /\ search.debug.best_line = << >>
        /\ search.debug.leaf_evals = 1
        /\ search.best_route = << >>

\* C25 - end_turn: Engine.end_turn gives the turn to the other player,
\* empties the dice and leaves all 28 slots as they were; the other player's
\* other player is the player whose turn it was, so a second end_turn gives
\* the turn back.
C25_EndTurnFrame ==
    [][ op' = "end_turn" =>
          /\ turn' = (IF turn = WHITE THEN BLACK ELSE WHITE)
          /\ (IF turn' = WHITE THEN BLACK ELSE WHITE) = turn
          /\ dice' = << >>
          /\ \A i \in Slots : board'[i] = board[i] ]_vars

\* C25 witness: the turn has been ended with WHITE to move, rolled dice and
\* checkers away from the opening layout.
C25_Witness ==
    /\ op = "end_turn"
    /\ turn = BLACK
    /\ rolls = 1
    /\ board # standard_setup
    /\ dice = << >>

\* The board after the moves of route r are made in order on board b.
RECURSIVE BoardAfterMoves(_, _, _)
BoardAfterMoves(b, player, r) ==
    IF r = << >> THEN b
    ELSE BoardAfterMoves(apply_single_move(b, player, Head(r).start, Head(r).end).board,
                         player, Tail(r))

\* Some move of the applied route names a die that was not among the dice
\* left when its turn came.
DieMissing(d, r) == \E v \in Faces : Used(r, v) > Count(d, v)

\* C26 - Soft inconsistency: a route with a move whose die is not among the
\* remaining dice is applied without an error; the dice lose only the dice
\* that were there, and every move of the route is made on the board.
C26_SoftInconsistency ==
    (search.kind = "applied" /\ DieMissing(search.dice, search.route)) =>
        /\ err = "none"
        /\ \A v \in Faces :
              Count(dice, v) = Max(0, Count(search.dice, v) - Used(search.route, v))
        /\ board = BoardAfterMoves(before, turn, search.route)
        /\ board # before

\* C26 witness: a route that uses die 1 twice has been applied to dice that
\* held one 1 and one 2; the 2 is still there.
C26_Witness ==
    /\ search.kind = "applied"
    /\ search.dice = <<1, 2>>
    /\ Used(search.route, 1) = 2
    /\ dice = <<2>>
    /\ err = "none"

\* C27 - Evaluator slot mapping: the bar count and the off-tray count the
\* static evaluator and the fuzzy feature extractor read for a player are
\* the counts of that player's own bar slot and own off-tray slot.
C27_EvaluatorSlots ==
    \A p \in Player :
       /\ Evaluator_count_on_bar(board, p) = count_on_bar(board, p)
       /\ count_borne_off(board, p) = count_off(board, p)
       /\ on_bar(board, p) = count_on_bar(board, p)
       /\ borne_off(board, p) = count_off(board, p)

\* The checkers of player p in p's home quadrant or off-tray.
InHomeOrOff(b, p) ==
    SumOver(b, p, home_range(p)) + count_off(b, p)

\* C28 - Home-progress ratio: for both players home_progress is the number
\* of the player's checkers in its home quadrant or off-tray, divided by the
\* number of checkers it owns (15); it is 1 when all are at home or off.
C28_HomeProgress ==
    \A p \in Player :
       /\ home_progress(board, p) * Total(board, p) = 15 * InHomeOrOff(board, p)
       /\ fuzzy_home_progress(board, p)[1] * Total(board, p)
             = fuzzy_home_progress(board, p)[2] * InHomeOrOff(board, p)

\* Point i is held by player p with two or more checkers.
Held(b, p, i) == b[i].owner = p /\ b[i].checkers >= 2

\* The length of the maximal run of held points that starts at point i,
\* 0 when no run starts there.
RunFrom(b, p, i) ==
    IF Held(b, p, i) /\ (i = 1 \/ ~Held(b, p, i - 1))
    THEN (CHOOSE j \in i..24 :
             /\ \A k \in i..j : Held(b, p, k)
             /\ (j = 24 \/ ~Held(b, p, j + 1))) - i + 1
    ELSE 0

RunLengths(b, p) == [i \in 1..24 |-> RunFrom(b, p, i)]

\* Half of L * (L + 1) for each length in the sequence.
Triangles(ls) == [i \in 1..Len(ls) |-> (ls[i] * (ls[i] + 1)) \div 2]

\* C30 - Blockade score as claimed: blockade_score is 0.5 times the length
\* of each maximal run of held points, summed over the runs (the score is
\* kept in halves).
C30_BlockadeLinear ==
    \A p \in Player :
       blockade_score(board, p) = SumSeq(RunLengths(board, p))

\* C30 amended - each maximal run of length L adds 0.5 * (1 + 2 + ... + L):
\* every held point adds 0.5 times its position within its run.
C30_BlockadeTriangular ==
    \A p \in Player :
       blockade_score(board, p)
          = SumSeq(The({ Triangles(ls) : ls \in {RunLengths(board, p)} }))

\* C30 witness: WHITE holds two neighbouring points and a point apart from
\* them, each with two or more checkers.
C30_Witness ==
    /\ \E i \in 1..23 : RunFrom(board, WHITE, i) = 2
    /\ \E i \in 1..24 : RunFrom(board, WHITE, i) = 1
    /\ blockade_score(board, WHITE) >= 4

\* The side to move of engine e has no legal single move with its dice.
NoLegalMove(e) == generate_all_routes(e.board, e.turn, e.dice) = { << >> }

\* C22 - Fuzzy pick with no legal move: pick_best_route_fuzzy returns no
\* route, score 0.0 and an empty scored list exactly when the side to move
\* has no legal single move; otherwise the route it returns has a move.
C22_FuzzyNoLegalMove ==
    search.kind = "fuzzy" =>
       /\ NoLegalMove(search.on)
             <=> /\ search.best_route = None
                 /\ search.score = Exact(<<0, 1>>)
                 /\ search.scored = << >>
       /\ ~NoLegalMove(search.on)
             => /\ search.best_route # None
                /\ Len(search.best_route) >= 1

\* C23 - Fuzzy selection: the route pick_best_route_fuzzy returns is the
\* first of engine.generate_routes(), in generation order, whose fuzzy score
\* no other route's score exceeds, and the score returned is that route's.
C23_FuzzySelection ==
    search.kind = "fuzzy" =>
       /\ Len(search.scored) = Len(search.routes)
       /\ \A k \in 1..Len(search.routes) :
             /\ search.scored[k].route = search.routes[k]
             /\ search.scored[k].s
                  = fuzzy_score(extract_route_features(search.on,
                                                       search.routes[k]).ret)
       /\ \E i \in 1..Len(search.scored) :
             /\ search.best_route = search.routes[i]
             /\ search.score = search.scored[i].s
             /\ \A j \in 1..Len(search.scored) :
                   ~Less(search.scored[i].s, search.scored[j].s)
             /\ \A j \in 1..(i - 1) :
                   Less(search.scored[j].s, search.scored[i].s)

\* C23 witness: the highest score is shared by the returned route and a
\* later one, and an earlier route scores lower.
C23_Witness ==
    /\ search.kind = "fuzzy"
    /\ \E i, j, k \in 1..Len(search.scored) :
          /\ k < i /\ i < j
          /\ search.best_route = search.routes[i]
          /\ search.scored[j].s = search.score
          /\ Less(search.scored[k].s, search.score)

\* Some activation of a is not 0.0.
SomeRuleFires(a) ==
    \E x \in {a.p, a.o, a.g} : x # Exact(<<0, 1>>)

\* The sum of the activations of a, without the 1e-9 parts.
ActivationSum(a) == RatAdd(RatAdd(a.p.v, a.o.v), a.g.v)

\* C24 - Fuzzy score bounds as claimed: with some activation non-zero the
\* score is at least 0.2 and at most 0.85; with all activations zero it is 0.
C24_ScoreInHull ==
    search.kind = "score" =>
       IF SomeRuleFires(search.act)
       THEN /\ ~Less(search.s, Exact(Q(2, 10)))
            /\ ~Less(Exact(Q(85, 100)), search.s)
       ELSE search.s = Exact(<<0, 1>>)

\* C24 amended - with some activation non-zero the score is below 0.85 and
\* at least 0.2 * s / (s + 1e-9), s the sum of the activations, that is
\* 0.2 - (0.2 / s) * 1e-9 to first order; with all activations zero it is 0.
C24_ScoreNearHull ==
    search.kind = "score" =>
       IF SomeRuleFires(search.act)
       THEN /\ Less(search.s, Exact(Q(85, 100)))
            /\ ~Less(search.s,
                     [v |-> Q(2, 10),
                      e |-> RatDiv(Q(2, 10), ActivationSum(search.act))])
       ELSE search.s = Exact(<<0, 1>>)

\* C24 witness: only Poor fires, fully, and the score is below 0.2; its
\* value is 0.2 - 0.2 * 1e-9.
C24_Witness ==
    /\ search.kind = "score"
    /\ search.act = [p |-> Exact(<<1, 1>>), o |-> Exact(<<0, 1>>),
                     g |-> Exact(<<0, 1>>)]
    /\ search.s = [v |-> <<1, 5>>, e |-> <<1, 5>>]
    /\ Less(search.s, Exact(Q(2, 10)))

\* C29 - Hits feature: for each route scored by pick_best_route_fuzzy the
\* hits feature is the increase of the opponent's bar slot count from the
\* board before the route to the board after it.
C29_HitsFeature ==
    search.kind = "fuzzy" =>
       \A k \in 1..Len(search.scored) :
          search.scored[k].f.hits
             = count_on_bar(BoardAfterMoves(search.on.board, search.on.turn,
                                            search.scored[k].route),
                            opponent(search.on.turn))
               - count_on_bar(search.on.board, opponent(search.on.turn))

\* C31 - Search statistics: after pick_best_route, debug.nodes is the
\* number of minimax invocations made and debug.leaf_evals the number of
\* static evaluations performed during the search.
C31_SearchStatistics ==
    search.kind = "minimax" =>
       /\ search.debug.nodes = search.calls
       /\ search.debug.leaf_evals = search.evals

\* The routes of line are, in order, routes the generator gives for the
\* player to move on board b with dice d, then for the other player on the
\* board that results with the sampled roll, and so on in turns.
RECURSIVE LineAlternates(_, _, _, _, _)
LineAlternates(b, player, d, line, roll) ==
    \/ line = << >>
    \/ /\ Head(line) \in generate_all_routes(b, player, d)
       /\ LineAlternates(apply_route(b, player, d, Head(line)).board,
                         opponent(player), roll, Tail(line), roll)

\* C32 - Returned route is legal: for depth >= 1 the route pick_best_route
\* returns is one of generate_routes() for the root engine and heads the
\* principal variation, which has at most depth routes, played by the two
\* sides in turns.
C32_ReturnedRouteLegal ==
    (search.kind = "minimax" /\ search.depth >= 1) =>
       /\ search.best_route # << >>
       /\ search.best_route[1]
            \in generate_all_routes(search.on.board, search.on.turn,
                                    search.on.dice)
       /\ search.debug.best_line # << >>
       /\ search.debug.best_line[1] = search.best_route[1]
       /\ Len(search.debug.best_line) <= search.depth
       /\ LineAlternates(search.on.board, search.on.turn, search.on.dice,
                         search.debug.best_line,
                         roll_dice(search.rnd.roll[1], search.rnd.roll[2]))

\* C32 witness: a search of depth 3 returned a line of three routes, each
\* of them with a move.
C32_Witness ==
    /\ search.kind = "minimax"
    /\ search.depth = 3
    /\ Len(search.debug.best_line) = 3
    /\ \A i \in 1..3 : search.debug.best_line[i] # << >>

\* The board and dice after the moves of route r are applied one at a
\* time, each as a route of a single move.
RECURSIVE MoveByMove(_, _, _, _)
MoveByMove(b, player, d, r) ==
    IF r = << >> THEN [board |-> b, dice |-> d]
    ELSE LET one == apply_route(b, player, d, << Head(r) >>)
         IN MoveByMove(one.board, player, one.dice, Tail(r))

\* C33 - Dice consumption: with active dice D, apply_route of any generated
\* route r leaves D less the die values of r; no die is left exactly when r
\* has as many moves as D has dice; and applying r move by move gives the
\* same board and dice.
C33_DiceConsumption ==
    dice # << >> =>
       \A r \in Routes :
          LET res == apply_route(board, turn, dice, r)
          IN /\ \A v \in Faces : Count(res.dice, v) = Count(dice, v) - Used(r, v)
             /\ (res.dice = << >>) <=> (Len(r) = Len(dice))
             /\ MoveByMove(board, turn, dice, r)
                  = [board |-> res.board, dice |-> res.dice]

\* C33 witness: two different dice are active and some generated route
\* uses only the first of them, others use both.
C33_Witness ==
    /\ Len(dice) = 2
    /\ dice[1] # dice[2]
    /\ \E r \in Routes : Len(r) = 1 /\ r[1].die = dice[1]
                         /\ apply_route(board, turn, dice, r).dice = << dice[2] >>
    /\ \E r \in Routes : Len(r) = 2

\* C34 - Every reported target is applicable: for every player, every
\* start slot and every dice list a roll gives, each (die, end) pair that
\* legal_single_targets reports is executed by apply_single_move without
\* an exception.
C34_TargetsApplicable ==
    \A p \in Player, start \in Slots, a \in Faces, c \in Faces :
       LET targets == legal_single_targets(board, p, start, roll_dice(a, c))
       IN \A i \in DOMAIN targets :
             apply_single_move(board, p, start, targets[i][2]).raised = "none"

\* C35 - Failure atomicity of apply_single_move: when the start slot holds
\* no checker, or the destination is a point the opponent holds with 2 or
\* more checkers, apply_single_move raises and leaves the board as it was.
C35_FailureAtomicity ==
    \A p \in Player, start \in Slots, end \in Slots :
       (\/ board[start].checkers = 0
        \/ /\ end \in Points
           /\ board[end].owner = opponent(p)
           /\ board[end].checkers >= 2) =>
          LET r == apply_single_move(board, p, start, end)
          IN /\ r.raised # "none"
             /\ r.board = board

\* Slots 0 and 25 are empty or WHITE's, slots 26 and 27 empty or BLACK's.
SlotsOwned(b) ==
    /\ \A i \in {0, 25} : b[i].owner \in {None, WHITE}
    /\ \A i \in {26, 27} : b[i].owner \in {None, BLACK}

\* Checkers of player p on the points 1..24 of board b.
OnPoints(b, p) == SumOver(b, p, Points)

\* C36 - Bar/off slot ownership: in every state reachable by legal play the
\* bar and off-tray slots hold only their owner's checkers; each checker
\* the opponent loses from the points in a route is added to the
\* opponent's bar, and each checker the mover takes from its points and
\* bar without putting it back on a point is added to the mover's off-tray.
C36_SlotOwnership ==
    /\ SlotsOwned(board)
    /\ [][ /\ SlotsOwned(board')
           /\ op' = "apply_route" =>
                LET opp == opponent(turn)
                IN /\ count_on_bar(board', opp) - count_on_bar(board, opp)
                      = OnPoints(board, opp) - OnPoints(board', opp)
                   /\ count_off(board', opp) = count_off(board, opp)
                   /\ count_off(board', turn) - count_off(board, turn)
                      = (OnPoints(board, turn) + count_on_bar(board, turn))
                        - (OnPoints(board', turn) + count_on_bar(board', turn))
       ]_vars

\* C36 witness: BLACK has just played a route that captured a WHITE checker,
\* and BLACK has checkers in its off-tray.
C36_Witness ==
    /\ op = "apply_route"
    /\ turn = BLACK
    /\ board[0].checkers > before[0].checkers
    /\ board[27].owner = BLACK
    /\ board[25].owner = WHITE

\* C37: in the pygame driver try_roll leaves the engine's dice, board and
\* turn as they are whenever dice are active or the game is over; a handler
\* rolls only when it finds the dice empty; and while the turn stays with
\* one player the number of remaining dice never grows.
C37_NoReroll ==
    [][ /\ (op' = "try_roll" /\ (dice # << >> \/ ui.game_over)) =>
              /\ UNCHANGED <<board, turn, dice>>
              /\ search'.rolled = << >>
        /\ search'.kind = "handler" /\ search'.rolled # << >> => dice = << >>
        /\ (turn' = turn /\ dice # << >>) => Len(dice') <= Len(dice) ]_vars

\* [R] was pressed in the middle of a turn, with one die played and one
\* still active: no roll was made.
C37_Witness ==
    /\ op = "try_roll"
    /\ search.rolled = << >>
    /\ Len(dice) = 1
    /\ ~ui.game_over

\* The player p has no legal single move on board b with dice d: no slot
\* that holds a checker of p still in play has a target.
NoLegalSingle(b, p, d) ==
    \A s \in Slots \ {off_index(p)} :
        (b[s].owner = p /\ b[s].checkers > 0) =>
            legal_single_targets(b, p, s, d) = << >>

\* C38: in the pygame driver a player who holds dice and has no legal
\* single move, the game not being over, passes.  No handler leaves such a
\* state behind; a handler that rolls dice the mover cannot play ends the
\* turn with the board untouched; and a handler that applies moves and
\* leaves dice the mover cannot play ends the turn there.
C38_StuckPlayerPasses ==
    /\ [](ui.kind = "pygame" /\ ~ui.game_over /\ dice # << >>
             => ~NoLegalSingle(board, turn, dice))
    /\ [][ search'.kind = "handler" =>
             /\ (search'.rolled # << >> /\ NoLegalSingle(board, turn, search'.rolled)) =>
                   /\ board' = board
                   /\ search'.moved = 0
                   /\ turn' = opponent(turn)
                   /\ dice' = << >>
             /\ (search'.moved > 0 /\ ~ui'.game_over /\ search'.left # << >>
                   /\ NoLegalSingle(board', turn, search'.left)) =>
                   /\ turn' = opponent(turn)
                   /\ dice' = << >> ]_vars

\* The human played one die with a click, could not play the die left, and
\* the turn went to the AI.
C38_Witness ==
    /\ op = "click"
    /\ search.moved = 1
    /\ search.left # << >>
    /\ search.passed
    /\ NoLegalSingle(board, WHITE, search.left)
    /\ turn = BLACK
    /\ dice = << >>
    /\ ~ui.game_over

\* C39: in the pygame driver game_over is set, with the winner, in every
\* state a handler leaves in which a player has all 15 checkers in the
\* off-tray; the handler that sets it does not flip the turn; and once it
\* is set every handler but the new game leaves the engine's board, turn
\* and dice as they are, and game_over set.
C39_GameOverFreezes ==
    /\ [](ui.kind = "pygame" =>
            \A p \in Player :
                has_won(board, p) => ui.game_over /\ ui.winner = p)
    /\ [][ ui.kind = "pygame" =>
             /\ (~ui.game_over /\ ui'.game_over) => turn' = turn
             /\ (ui.game_over /\ op' # "new_game") =>
                   /\ UNCHANGED <<board, turn, dice>>
                   /\ ui'.game_over ]_vars

\* BLACK has borne off its last checker with dice to spare, and [F] was
\* pressed after that: the turn is still BLACK's and the dice are there.
C39_Witness ==
    /\ ui.kind = "pygame"
    /\ op = "finish"
    /\ ui.game_over
    /\ ui.winner = BLACK
    /\ count_off(board, BLACK) = NumCheckers
    /\ turn = BLACK
    /\ dice # << >>

\* What a click can change besides the selection.
GameData(s) == [s EXCEPT !.selected_point = {}]

\* Some clicks apply a move of White: with no point selected or with one of
\* White's points selected, a click on some point changes the game.
CanMove(s) ==
    \E sel \in {{}} \cup { {i} : i \in { j \in Points : s.points[j].white > 0 } } :
    \E idx \in Points :
    \E t \in on_canvas_click([s EXCEPT !.selected_point = sel], idx) :
        GameData(t) # GameData(s)

\* White's turn with dice left and no click that applies a move: on_roll
\* returns at once, and nothing else ends the turn.
TkStuck(s) ==
    /\ ~s.game_over
    /\ s.turn = "white"
    /\ s.moves_remaining # << >>
    /\ ~CanMove(s)

\* C40: in the Tkinter game no reachable state that is not game over has
\* White to move with dice left in moves_remaining and no move the click
\* handler can apply.
C40_NoStuckTurn == state.kind = "tk" => ~TkStuck(state)

====
